---- MODULE Spec2Model ----
(***************************************************************************)
(* Model of the stub fixing pipeline of PyQt6-stubs: the classifier        *)
(* (fixes/mypy_visitor.py, MypyVisitor) that turns mypy diagnostics into   *)
(* generated fixes, and the rewriter (fixes/annotation_fixer.py,           *)
(* AnnotationFixer) that applies the rule table ANNOTATION_FIXES and the   *)
(* generated fixes in one traversal of a module.                           *)
(*                                                                         *)
(* A module is the sequence of its nodes in traversal order.  A node is    *)
(* identified by its position in that sequence (libcst nodes compare by    *)
(* identity), a decorator by the position of its function and its index.   *)
(* Python strings that the code inspects (parameter names, annotation      *)
(* texts) are sequences of tokens, so that startswith("*"), f"*{name}" and *)
(* replace("'", '"') are computed and not assumed.  Python None is the     *)
(* empty text for optional strings and a node of its own for optional      *)
(* tree nodes.                                                             *)
(***************************************************************************)
EXTENDS Integers, Sequences, FiniteSets, TLC

\* ------------------------------------------------------------------ bounds
\* Largest number of methods of the class of a pool scenario.
MaxMethods == 2
\* Largest number of rules of the table of a pool scenario.
MaxRules == 2
\* Largest number of parameters of the rule of a one-rule scenario.
MaxFixParams == 2
\* Largest number of lines for which mypy reports an error.
MaxErrors == 2
\* lines of the mypy output before its summary line
MaxLines == 2
\* the files of a run after the first one
MaxFiles == 2

\* ------------------------------------------------------------ Python values
None == <<>>
NoNode == [node |-> "None"]
MaybeSentinel == [node |-> "MaybeSentinel"]
ParamStar == [node |-> "ParamStar"]

Name(v) == [node |-> "Name", value |-> <<v>>]
SimpleString(q, v) == [node |-> "SimpleString", value |-> <<q, v, q>>]
Attribute(v, a) == [node |-> "Attribute", value |-> v, attr |-> a]
Subscript(v, s) == [node |-> "Subscript", value |-> v, slice |-> s]
BinaryOperation == [node |-> "BinaryOperation"]
Param(n, a) == [node |-> "Param", name |-> <<n>>, annotation |-> a]

Returned(v) == [raised |-> FALSE, value |-> v]
Raised(e) == [raised |-> TRUE, exc |-> e]

startswith_star(s) == Len(s) >= 1 /\ s[1] = "*"

\* str.replace("'", '"') on a text
replace_quotes(code) == [i \in 1..Len(code) |-> IF code[i] = "'" THEN "\"" ELSE code[i]]

\* ------------------------------------------------------- annotation to text
_attribute_code(attribute) ==
    IF attribute.value.node # "Name"
    THEN Raised("AssertionError")
    ELSE Returned(attribute.value.value \o <<".", attribute.attr>>)

\* ", ".join(slices), or the first exception raised while the slices were
\* rendered in order
RECURSIVE join_slices(_, _, _)
join_slices(parts, i, acc) ==
    IF i > Len(parts) THEN Returned(acc)
    ELSE IF parts[i].raised THEN parts[i]
    ELSE join_slices(parts, i + 1,
                     acc \o (IF i = 1 THEN <<>> ELSE <<", ">>) \o parts[i].value)

\* f"{subscript_str}[{', '.join(slices)}]"
subscript_code(subscript_str, slices) ==
    IF slices.raised THEN slices
    ELSE Returned(subscript_str \o <<"[">> \o slices.value \o <<"]">>)

RECURSIVE _code_for_subscript(_)
_code_for_subscript(subscript) ==
    IF subscript.value.node = "Attribute" /\ subscript.value.value.node = "Name"
    THEN subscript_code(
             subscript.value.value.value \o <<".", subscript.value.attr>>,
             join_slices(
                 [i \in 1..Len(subscript.slice) |->
                     IF subscript.slice[i].node \in {"Name", "SimpleString"}
                     THEN Returned(subscript.slice[i].value)
                     ELSE IF subscript.slice[i].node = "Subscript"
                     THEN _code_for_subscript(subscript.slice[i])
                     ELSE Raised("NotImplementedError")],
                 1, <<>>))
    ELSE Raised("NotImplementedError")

\* f"{attr_str}.{annotation.annotation.attr.value}"
dotted(attr_str, attr) ==
    IF attr_str.raised THEN attr_str ELSE Returned(attr_str.value \o <<".", attr>>)

_code(annotation) ==
    IF annotation.node = "Attribute"
    THEN IF annotation.value.node = "Attribute"
         THEN dotted(_attribute_code(annotation.value), annotation.attr)
         ELSE _attribute_code(annotation)
    ELSE IF annotation.node \in {"SimpleString", "Name"}
    THEN Returned(annotation.value)
    ELSE IF annotation.node = "Subscript"
    THEN _code_for_subscript(annotation)
    ELSE Raised("NotImplementedError")

\* ------------------------------------------------------------- rule table
FixParameter(n, a, c) == [name |-> n, annotation |-> a, current_annotation |-> c]

AnnotationFix(mod, cls, meth, ps, ret, ct, st) ==
    [type |-> "AnnotationFix", module_name |-> mod, class_name |-> cls,
     method_name |-> meth, params |-> ps, return_value |-> ret,
     custom_type |-> ct, static |-> st]

AddAnnotationFix(mod, cls, anns) ==
    [type |-> "AddAnnotationFix", module_name |-> mod, class_name |-> cls,
     annotations |-> anns]

\* A table entry is a rule object: the rule and its identity.
Entry(t, f) == [tid |-> t, fix |-> f]

\* ------------------------------------------------------------ match engine
\* len(params.children): every child node of the parameter list, the bare
\* "*" separator included.
child_count(params) ==
    Len(params.posonly_params)
    + (IF params.posonly_ind.node = "ParamSlash" THEN 1 ELSE 0)
    + Len(params.params)
    + (IF params.star_arg.node \in {"Param", "ParamStar"} THEN 1 ELSE 0)
    + Len(params.kwonly_params)
    + (IF params.star_kwarg.node = "Param" THEN 1 ELSE 0)

\* same_annotation that compares no annotation
same_annotation_any(param, fix_param, code) ==
    IF code.raised THEN code ELSE Returned(TRUE)

\* same_annotation of _check_parameters, for the rendered annotation
same_annotation(param, fix_param, code) ==
    IF code.raised THEN code
    ELSE Returned(IF param.annotation.node # "None"
                  THEN replace_quotes(code.value) = fix_param.current_annotation
                  ELSE fix_param.current_annotation = None)

\* The inner loop of _check_parameters for one parameter: "break" when an
\* entry has the name and the annotation, "else" when the loop runs out.
RECURSIVE _check_fix_params(_, _, _)
break_or_next(param, fix_params, j, same) ==
    IF same.raised THEN same
    ELSE IF fix_params[j].name = param.name /\ same.value THEN Returned("break")
    ELSE _check_fix_params(param, fix_params, j + 1)

_check_fix_params(param, fix_params, j) ==
    IF j > Len(fix_params) THEN Returned("else")
    ELSE IF startswith_star(fix_params[j].name)
    THEN _check_fix_params(param, fix_params, j + 1)
    ELSE break_or_next(param, fix_params, j,
             same_annotation(param, fix_params[j],
                 IF param.annotation.node # "None" THEN _code(param.annotation)
                 ELSE Returned(None)))

\* The outer loop of _check_parameters from parameter i on.
RECURSIVE _check_parameters_from(_, _, _)
\* _check_parameters_from that compares the parameters named self as well
_check_parameters_with_self(function, fix, i) ==
    IF i > Len(function.params.params) THEN Returned(TRUE)
    ELSE IF _check_fix_params(function.params.params[i], fix.params, 1) = Returned("break")
    THEN _check_parameters_from(function, fix, i + 1)
    ELSE Returned(FALSE)

false_or_next(function, fix, i, r) ==
    IF r.raised THEN r
    ELSE IF r.value = "else" THEN Returned(FALSE)
    ELSE _check_parameters_from(function, fix, i + 1)

_check_parameters_from(function, fix, i) ==
    IF i > Len(function.params.params) THEN Returned(TRUE)
    ELSE IF function.params.params[i].name = <<"self">>
    THEN _check_parameters_from(function, fix, i + 1)
    ELSE false_or_next(function, fix, i,
                       _check_fix_params(function.params.params[i], fix.params, 1))

_check_parameters(function, fix) == _check_parameters_from(function, fix, 1)

\* The parameter count test of _get_fix: TRUE when the rule is given up.
count_mismatch(fix, function) ==
    \/ fix.static /\ child_count(function.params) # Len(fix.params)
    \/ ~fix.static /\ child_count(function.params) - 1 # Len(fix.params)

\* The star test of _get_fix: TRUE when the function has a variadic
\* parameter that no entry of the rule names.
star_unmatched(fix, function) ==
    /\ function.params.star_arg.node = "Param"
    /\ ~\E k \in 1..Len(fix.params) :
           fix.params[k].name = <<"*">> \o function.params.star_arg.name

\* _get_fix over the pool from index i on: the index of the rule to apply,
\* 0 for None, or the exception of _code.
RECURSIVE _get_fix_from(_, _, _, _)
\* what follows _check_parameters(fix) for the rule at index i
continue_or_return(fixes, class_name, function, i, ok) ==
    IF ok.raised THEN ok
    ELSE IF ~ok.value THEN _get_fix_from(fixes, class_name, function, i + 1)
    ELSE IF star_unmatched(fixes[i].fix, function) THEN Returned(0)
    ELSE Returned(i)

_get_fix_from(fixes, class_name, function, i) ==
    IF i > Len(fixes) THEN Returned(0)
    ELSE IF /\ fixes[i].fix.type = "AnnotationFix"
            /\ fixes[i].fix.class_name = class_name
            /\ fixes[i].fix.method_name = function.name
    THEN IF count_mismatch(fixes[i].fix, function) THEN Returned(0)
         ELSE continue_or_return(fixes, class_name, function, i,
                                 _check_parameters(function, fixes[i].fix))
    ELSE _get_fix_from(fixes, class_name, function, i + 1)

_get_fix(fixes, class_name, function) == _get_fix_from(fixes, class_name, function, 1)

\* ------------------------------------------------------------ module tree
Parameters(ps, star, kw, starkw) ==
    [posonly_params |-> <<>>, posonly_ind |-> MaybeSentinel, params |-> ps,
     star_arg |-> star, kwonly_params |-> kw, star_kwarg |-> starkw]

Decorator(ov) == [node |-> "Decorator", overload |-> ov, comment |-> None]

FunctionDef(n, decs, ps, ret) ==
    [node |-> "FunctionDef", name |-> n, decorators |-> decs, params |-> ps,
     returns |-> ret, comment |-> None]

ClassDef(n) == [node |-> "ClassDef", name |-> n, comment |-> None]
EndClassDef == [node |-> "EndClassDef"]
ImportFrom(m, ns) == [node |-> "ImportFrom", module |-> m, names |-> ns]
Statement(code) == [node |-> "Statement", code |-> code]
\* A line with one assignment: target = ...
Assign(target) == [node |-> "Assign", target |-> target]

\* A reference to a node: the position of the class or function, and the
\* index of the decorator (0 for the class or function itself).
Ref(p, d) == [pos |-> p, dec |-> d]

n_lines(tok) ==
    IF tok.node = "FunctionDef" THEN Len(tok.decorators) + 1
    ELSE IF tok.node = "EndClassDef" THEN 0
    ELSE 1

RECURSIVE first_line(_, _)
first_line(m, p) == IF p = 1 THEN 1 ELSE first_line(m, p - 1) + n_lines(m[p - 1])

\* PositionProvider start line of a node: a decorator has its own line, a
\* function starts at its def line, after its decorators.
start_line(m, ref) ==
    IF ref.dec > 0 THEN first_line(m, ref.pos) + ref.dec - 1
    ELSE IF m[ref.pos].node = "FunctionDef"
    THEN first_line(m, ref.pos) + Len(m[ref.pos].decorators)
    ELSE first_line(m, ref.pos)

\* The classes open at position p, innermost last (the class stack that the
\* visit_ClassDef / leave_ClassDef pairs of a traversal build).
RECURSIVE open_classes(_, _)
open_classes(m, p) ==
    IF p = 0 THEN <<>>
    ELSE LET before == open_classes(m, p - 1)
         IN  IF m[p].node = "ClassDef" THEN Append(before, p)
             ELSE IF m[p].node = "EndClassDef" THEN SubSeq(before, 1, Len(before) - 1)
             ELSE before

\* ------------------------------------------------------------------- state
VARIABLES
    module,              \* the parsed stub module
    mod_name,            \* its name
    ANNOTATION_FIXES,    \* the rule table
    mypy_result,         \* the output of mypy on the module, line by line
    pc, pos, sub,        \* the traversal: handler to run, node, child index
    _errors,             \* MypyVisitor: line number -> ErrorType
    _missing_imports,    \* MypyVisitor
    warned,              \* the "WARNING: Could not fix error" lines
    fixes,               \* MypyVisitor.fixes
    _class_functions,    \* MypyVisitor
    last_class_method,   \* MypyVisitor, handed to AnnotationFixer
    mv_last_class,       \* MypyVisitor._last_class
    _last_class,         \* AnnotationFixer
    _last_function,      \* AnnotationFixer
    _fixes,              \* AnnotationFixer: the rule pool of the module
    _generated_fixes,    \* AnnotationFixer
    _add_import_fix,     \* AnnotationFixer
    _import_alias_node,  \* AnnotationFixer
    _class_comment_fix,  \* AnnotationFixer
    _type_defs,          \* AnnotationFixer: the custom type definitions
    _insert_type_defs,   \* AnnotationFixer
    updated_node,        \* the copy of the function being left
    tree,                \* the rewritten module: node -> what replaces it
    printed,             \* the "ERROR: Fix was not applied" lines
    exc,                 \* the exception that ended the processing
    log,                 \* what each leave_FunctionDef did
    cf_last_class,       \* CustomFixer._last_class
    files,               \* the stub files the run has still to process
    written              \* the trees written back, one for each file processed

vars == <<module, mod_name, ANNOTATION_FIXES, mypy_result, pc, pos, sub, _errors,
          _missing_imports, warned, fixes, _class_functions, last_class_method,
          mv_last_class, _last_class, _last_function, _fixes, _generated_fixes,
          _add_import_fix, _import_alias_node, _class_comment_fix, _type_defs,
          _insert_type_defs, updated_node, tree, printed, exc, log, cf_last_class, files,
          written>>

\* What the MypyVisitor and the AnnotationFixer of a file leave alone: the
\* file and the table, the files to come and those written, and the
\* CustomFixer.
inputs == <<module, mod_name, ANNOTATION_FIXES, mypy_result, cf_last_class, files, written>>
mypy_vars == <<_errors, _missing_imports, warned, fixes, _class_functions,
               last_class_method, mv_last_class>>
fixer_vars == <<_type_defs, _insert_type_defs, _last_class, _last_function, _fixes, _generated_fixes,
                _add_import_fix, _import_alias_node, _class_comment_fix,
                updated_node, tree, printed, log>>

\* ------------------------------------------------------------ list helpers
remove_at(s, i) == SubSeq(s, 1, i - 1) \o SubSeq(s, i + 1, Len(s))

\* list.remove(v): the first element equal to v goes.
list_remove(s, v) ==
    remove_at(s, CHOOSE i \in 1..Len(s) : s[i] = v /\ \A k \in 1..(i - 1) : s[k] # v)

\* _fixes.remove(fix): rules are dataclasses and compare by their fields.
fixes_remove(s, e) ==
    remove_at(s, CHOOSE i \in 1..Len(s) :
                     s[i].fix = e.fix /\ \A k \in 1..(i - 1) : s[k].fix # e.fix)

\* The next node at or after p for which the visitor has a handler.
RECURSIVE next_node(_, _, _)
next_node(m, p, handled) ==
    IF p > Len(m) \/ m[p].node \in handled THEN p ELSE next_node(m, p + 1, handled)

MypyHandled == {"ClassDef", "EndClassDef", "FunctionDef"}
FixerHandled == {"ClassDef", "EndClassDef", "FunctionDef", "ImportFrom", "Assign"}

\* ------------------------------------------------------------ generated fixes
CommentFix(ref, comment) == [type |-> "CommentFix", node |-> ref, comment |-> comment]
RemoveFix(ref) == [type |-> "RemoveFix", node |-> ref]
RemoveOverloadDecoratorFix(ref) == [type |-> "RemoveOverloadDecoratorFix", node |-> ref]
AddImportFix(names) == [type |-> "AddImportFix", missing_imports |-> names]
NoFix == [type |-> "None"]

\* ============================================================== mypy output
\* A line of the mypy output is a text, a text a sequence of tokens; the
\* tokens are the pieces that the parsing looks for.
\* line.split(sep, maxsplit): the parts of the line between the first
\* maxsplit occurrences of sep
RECURSIVE split(_, _, _)
split(line, sep, maxsplit) ==
    IF maxsplit = 0 \/ ~\E i \in 1..Len(line) : line[i] = sep THEN <<line>>
    ELSE LET i == CHOOSE k \in 1..Len(line) :
                      line[k] = sep /\ \A j \in 1..(k - 1) : line[j] # sep
         IN  <<SubSeq(line, 1, i - 1)>> \o
             split(SubSeq(line, i + 1, Len(line)), sep, maxsplit - 1)

\* The decimal numerals int() reads, the n-th one being the number n.
Numerals == <<"1", "2", "3", "4", "5", "6", "7", "8", "9", "10", "11", "12">>

\* int(text): the number, or ValueError for a text that is no numeral
int(text) ==
    IF Len(text) = 1 /\ \E n \in 1..Len(Numerals) : Numerals[n] = text[1]
    THEN Returned(CHOOSE n \in 1..Len(Numerals) : Numerals[n] = text[1])
    ELSE Raised("ValueError")

\* The line number read, the message is what follows "error: ".
error_msg_of(line, line_nbr) ==
    IF line_nbr.raised THEN line_nbr
    ELSE IF Len(split(line, "error: ", Len(line))) < 2 THEN Raised("IndexError")
    ELSE Returned([line_nbr |-> line_nbr.value,
                   error_msg |-> split(line, "error: ", Len(line))[2]])

\* _parse_line without its assert: every line without a colon is skipped
_parse_line_lenient(line) ==
    IF Len(split(line, ":", 2)) < 2 THEN Raised("IndexError")
    ELSE error_msg_of(line, int(split(line, ":", 2)[2]))

_parse_line(line) ==
    IF Len(split(line, ":", 2)) < 2
    THEN IF \/ line = <<>>
            \/ line[1] = "Found " /\ line[Len(line)] = "source file)"
         THEN Raised("IndexError")
         ELSE Raised("AssertionError")
    ELSE error_msg_of(line, int(split(line, ":", 2)[2]))

\* A token that has a searched text inside it without being it.
Substrings ==
    {<<" is incompatible with supertype ", "incompatible with supertype">>}

\* pattern in error_msg
contains(error_msg, pattern) ==
    \E i \in 1..Len(error_msg) :
        error_msg[i] = pattern \/ <<error_msg[i], pattern>> \in Substrings

\* RE_NAME_NOT_DEFINED.match(error_msg): the message starts with Name ",
\* and (.+) is greedy, so the name ends at the last " is not defined.
name_not_defined(error_msg) ==
    /\ Len(error_msg) >= 3
    /\ error_msg[1] = "Name \""
    /\ \E k \in 3..Len(error_msg) : error_msg[k] = "\" is not defined"

group_1(error_msg) ==
    SubSeq(error_msg, 2,
           (CHOOSE k \in 3..Len(error_msg) :
                /\ error_msg[k] = "\" is not defined"
                /\ \A j \in (k + 1)..Len(error_msg) : error_msg[j] # "\" is not defined")
           - 1)

StaticMismatchMsg ==
    <<"Overload does not consistently use the \"@staticmethod\" decorator on all function signatures.">>

is_override(error_msg) ==
    \/ /\ contains(error_msg, "Signature of")
       /\ contains(error_msg, "incompatible with supertype")
    \/ contains(error_msg, " is incompatible with supertype ")
    \/ contains(error_msg, " incompatible with return type ")
    \/ contains(error_msg, "is incompatible with definition in base class")

is_signature_mismatch(error_msg) ==
    /\ contains(error_msg, "Overloaded function signature")
    /\ contains(error_msg, "will never be matched: signature")
    /\ contains(error_msg, "parameter type(s) are the same or broader")

\* What _parse_mypy_result has collected.
Parsed(errors, missing, warnings) ==
    [raised |-> FALSE, _errors |-> errors, _missing_imports |-> missing,
     warned |-> warnings]

\* _add_error_type that stores the last error type of a line
_add_error_type_overwrite(st, line_nbr, error_type) ==
    Parsed([n \in DOMAIN st._errors \cup {line_nbr} |->
               IF n = line_nbr THEN error_type ELSE st._errors[n]],
           st._missing_imports, st.warned)

\* _add_error_type(line_nbr, error_type) on what was collected so far
_add_error_type(st, line_nbr, error_type) ==
    IF line_nbr \in DOMAIN st._errors
    THEN IF st._errors[line_nbr] = error_type THEN st ELSE Raised("AssertionError")
    ELSE Parsed([n \in DOMAIN st._errors \cup {line_nbr} |->
                    IF n = line_nbr THEN error_type ELSE st._errors[n]],
                st._missing_imports, st.warned)

\* The if / elif chain with an else branch that raises instead of printing
classify_strict(st, line_nbr, error_msg) ==
    IF name_not_defined(error_msg)
    THEN Parsed(st._errors, Append(st._missing_imports, group_1(error_msg)), st.warned)
    ELSE IF error_msg = StaticMismatchMsg
    THEN _add_error_type(st, line_nbr, "STATIC_MISMATCH")
    ELSE IF is_override(error_msg)
    THEN _add_error_type(st, line_nbr, "OVERRIDE")
    ELSE IF is_signature_mismatch(error_msg)
    THEN _add_error_type(st, line_nbr, "SIGNATURE_MISMATCH")
    ELSE Raised("ValueError")

\* The if / elif chain of _parse_mypy_result for one parsed line.
classify(st, line_nbr, error_msg) ==
    IF name_not_defined(error_msg)
    THEN Parsed(st._errors, Append(st._missing_imports, group_1(error_msg)), st.warned)
    ELSE IF error_msg = StaticMismatchMsg
    THEN _add_error_type(st, line_nbr, "STATIC_MISMATCH")
    ELSE IF is_override(error_msg)
    THEN _add_error_type(st, line_nbr, "OVERRIDE")
    ELSE IF is_signature_mismatch(error_msg)
    THEN _add_error_type(st, line_nbr, "SIGNATURE_MISMATCH")
    ELSE Parsed(st._errors, st._missing_imports,
                Append(st.warned, [line_nbr |-> line_nbr, error_msg |-> error_msg]))

\* One turn of the loop over the lines: IndexError skips the line.
parse_one(st, parsed) ==
    IF parsed.raised
    THEN IF parsed.exc = "IndexError" THEN st ELSE parsed
    ELSE classify(st, parsed.value.line_nbr, parsed.value.error_msg)

RECURSIVE parse_lines(_, _, _)
parse_lines(lines, i, st) ==
    IF st.raised \/ i > Len(lines) THEN st
    ELSE parse_lines(lines, i + 1, parse_one(st, _parse_line(lines[i])))

\* mypy_result.startswith("Success")
startswith_Success(result) ==
    Len(result) >= 1 /\ Len(result[1]) >= 1 /\ result[1][1] = "Success"

_parse_mypy_result(result) ==
    IF startswith_Success(result) THEN Parsed(<<>>, <<>>, <<>>)
    ELSE parse_lines(result, 1, Parsed(<<>>, <<>>, <<>>))

\* list(set(names)) that keeps every name as often as it is in names
list_with_duplicates(names) == {names}

\* list(set(names)): the names once each, in some order
list_of_set(names) ==
    LET S == {names[i] : i \in 1..Len(names)}
    IN  {l \in [1..Cardinality(S) -> S] : \A a \in S : \E i \in DOMAIN l : l[i] = a}

\* _add_fix_for_missing_imports without its assert: other names are left out
_add_fix_skipping_names(missing) ==
    Returned({<<AddImportFix(l)>> :
                 l \in list_of_set(SelectSeq(missing,
                            LAMBDA name : name \in {<<"QtCore">>, <<"QtGui">>}))})

\* _add_fix_for_missing_imports: the fix lists it can leave in self.fixes
_add_fix_for_missing_imports(missing) ==
    IF \A i \in 1..Len(missing) : missing[i] \in {<<"QtCore">>, <<"QtGui">>}
    THEN Returned({<<AddImportFix(l)>> : l \in list_of_set(missing)})
    ELSE Raised("AssertionError")

\* ================================================================ MypyVisitor
_generate_fix(ref, fix_type) ==
    IF fix_type = "OVERRIDE" THEN Returned(CommentFix(ref, "# type: ignore[override]"))
    ELSE IF fix_type = "SIGNATURE_MISMATCH" THEN Returned(RemoveFix(ref))
    ELSE IF fix_type = "STATIC_MISMATCH" THEN Returned(CommentFix(ref, "# type: ignore[misc]"))
    ELSE Raised("ValueError")

RECURSIVE _get_fix_for_decorators(_, _, _, _)
_get_fix_for_decorators(m, errors, p, j) ==
    IF j > Len(m[p].decorators)
    THEN LET line == start_line(m, Ref(p, 0))
         IN  IF line \in DOMAIN errors
             THEN _generate_fix(Ref(p, 0), errors[line])
             ELSE Raised("ValueError")
    ELSE LET line == start_line(m, Ref(p, j))
         IN  IF line \in DOMAIN errors
             THEN _generate_fix(Ref(p, j), errors[line])
             ELSE _get_fix_for_decorators(m, errors, p, j + 1)

_get_fix_for_function(m, errors, p) == _get_fix_for_decorators(m, errors, p, 1)

\* _is_overload_decorator: the decorator reads typing.overload
_is_overload_decorator(decorator) == decorator.overload

\* The RemoveOverloadDecoratorFix of the overload decorators of function p.
RECURSIVE overload_fixes(_, _, _)
overload_fixes(m, p, j) ==
    IF j > Len(m[p].decorators) THEN <<>>
    ELSE (IF _is_overload_decorator(m[p].decorators[j])
          THEN <<RemoveOverloadDecoratorFix(Ref(p, j))>> ELSE <<>>)
         \o overload_fixes(m, p, j + 1)

\* The loop of leave_ClassDef over self.fixes from index i on: what it appends.
RECURSIVE obsolete_decorators(_, _, _, _)
obsolete_decorators(m, fs, class_functions, i) ==
    IF i > Len(fs) THEN <<>>
    ELSE LET fix == fs[i]
             in_class == /\ fix.type = "RemoveFix"
                         /\ \E k \in 1..Len(class_functions) :
                                Ref(class_functions[k], 0) = fix.node
             remaining_functions ==
                 SelectSeq(class_functions,
                           LAMBDA f : /\ fix.node.dec = 0
                                      /\ m[f].name = m[fix.node.pos].name
                                      /\ f # fix.node.pos)
             more == IF in_class /\ Len(remaining_functions) = 1
                     THEN overload_fixes(m, remaining_functions[1], 1)
                     ELSE <<>>
         IN  more \o obsolete_decorators(m, fs, class_functions, i + 1)

\* MypyVisitor(file): mypy is run, its output parsed, and the fix for the
\* missing imports added.
Constructed(st, added) ==
    IF st.raised \/ added.raised
    THEN /\ pc' = "raised"
         /\ exc' = IF st.raised THEN st.exc ELSE added.exc
         /\ UNCHANGED <<pos, _errors, _missing_imports, warned, fixes>>
    ELSE /\ _errors' = st._errors
         /\ _missing_imports' = st._missing_imports
         /\ warned' = st.warned
         /\ fixes' \in added.value
         /\ pc' = "mypy"
         /\ pos' = next_node(module, 1, MypyHandled)
         /\ exc' = exc

missing_imports_fix(st) ==
    IF st.raised THEN st
    ELSE IF st._missing_imports = <<>> THEN Returned({<<>>})
    ELSE _add_fix_for_missing_imports(st._missing_imports)

MypyVisitorInit ==
    /\ pc = "init"
    /\ Constructed(_parse_mypy_result(mypy_result),
                   missing_imports_fix(_parse_mypy_result(mypy_result)))
    /\ UNCHANGED <<inputs, sub, _class_functions, last_class_method, mv_last_class,
                   fixer_vars>>

MypyRaise(e) ==
    /\ pc' = "raised"
    /\ exc' = e
    /\ UNCHANGED <<inputs, pos, sub, mypy_vars, fixer_vars>>

MypyVisitClassDef ==
    /\ pc = "mypy"
    /\ pos <= Len(module)
    /\ module[pos].node = "ClassDef"
    /\ LET line == start_line(module, Ref(pos, 0))
       IN  IF line \in DOMAIN _errors /\ _errors[line] # "OVERRIDE"
           THEN MypyRaise("AssertionError")
           ELSE /\ mv_last_class' = Append(mv_last_class, pos)
                /\ fixes' = IF line \in DOMAIN _errors
                            THEN Append(fixes, CommentFix(Ref(pos, 0), "# type: ignore[misc]"))
                            ELSE fixes
                /\ pos' = next_node(module, pos + 1, MypyHandled)
                /\ UNCHANGED <<inputs, pc, sub, _errors, _missing_imports, warned,
                               _class_functions, last_class_method, fixer_vars, exc>>

MypyVisitFunctionDef ==
    /\ pc = "mypy"
    /\ pos <= Len(module)
    /\ module[pos].node = "FunctionDef"
    /\ _class_functions' = Append(_class_functions, pos)
    /\ pc' = "mypy_leave_FunctionDef"
    /\ UNCHANGED <<inputs, pos, sub, _errors, _missing_imports, warned, fixes,
                   last_class_method, mv_last_class, fixer_vars, exc>>

MypyLeaveFunctionDef ==
    /\ pc = "mypy_leave_FunctionDef"
    /\ LET fix == _get_fix_for_function(module, _errors, pos)
       IN  fixes' = IF fix.raised THEN fixes ELSE Append(fixes, fix.value)
    /\ last_class_method' =
          IF mv_last_class = <<>> THEN last_class_method
          ELSE LET cls == module[mv_last_class[Len(mv_last_class)]].name
               IN  [n \in DOMAIN last_class_method \cup {cls} |->
                       IF n = cls THEN pos ELSE last_class_method[n]]
    /\ pc' = "mypy"
    /\ pos' = next_node(module, pos + 1, MypyHandled)
    /\ UNCHANGED <<inputs, sub, _errors, _missing_imports, warned, _class_functions,
                   mv_last_class, fixer_vars, exc>>

MypyLeaveClassDef ==
    /\ pc = "mypy"
    /\ pos <= Len(module)
    /\ module[pos].node = "EndClassDef"
    /\ fixes' = fixes \o obsolete_decorators(module, fixes, _class_functions, 1)
    /\ _class_functions' = <<>>
    /\ mv_last_class' = SubSeq(mv_last_class, 1, Len(mv_last_class) - 1)
    /\ pos' = next_node(module, pos + 1, MypyHandled)
    /\ UNCHANGED <<inputs, pc, sub, _errors, _missing_imports, warned,
                   last_class_method, fixer_vars, exc>>

\* ============================================================ AnnotationFixer
\* AnnotationFixer(mod_name, visitor.fixes, visitor.last_class_method)
\* A constructor that takes the whole table as the pool of the module.
AnnotationFixerInit_whole_table ==
    /\ pc = "mypy"
    /\ pos > Len(module)
    /\ _fixes' = ANNOTATION_FIXES
    /\ _generated_fixes' = SelectSeq(fixes, LAMBDA f : f.type # "AddImportFix")
    /\ _add_import_fix' =
          LET imports == SelectSeq(fixes, LAMBDA f : f.type = "AddImportFix")
          IN  IF imports = <<>> THEN NoFix ELSE imports[1]
    /\ _last_class' = <<>>
    /\ _last_function' = <<>>
    /\ _import_alias_node' = NoNode
    /\ _class_comment_fix' = NoFix
    /\ _type_defs' = {ANNOTATION_FIXES[i].fix.custom_type :
                         i \in {k \in 1..Len(ANNOTATION_FIXES) :
                                   /\ ANNOTATION_FIXES[k].fix.module_name = mod_name
                                   /\ ANNOTATION_FIXES[k].fix.type = "AnnotationFix"
                                   /\ ANNOTATION_FIXES[k].fix.custom_type # None}}
    /\ _insert_type_defs' = FALSE
    /\ pc' = "visit"
    /\ pos' = next_node(module, 1, FixerHandled)
    /\ UNCHANGED <<inputs, sub, mypy_vars, updated_node, tree, printed, log, exc>>

\* A constructor that takes the type definitions of every rule of the table.
AnnotationFixerInit_any_module ==
    /\ pc = "mypy"
    /\ pos > Len(module)
    /\ _fixes' = SelectSeq(ANNOTATION_FIXES, LAMBDA e : e.fix.module_name = mod_name)
    /\ _generated_fixes' = SelectSeq(fixes, LAMBDA f : f.type # "AddImportFix")
    /\ _add_import_fix' =
          LET imports == SelectSeq(fixes, LAMBDA f : f.type = "AddImportFix")
          IN  IF imports = <<>> THEN NoFix ELSE imports[1]
    /\ _last_class' = <<>>
    /\ _last_function' = <<>>
    /\ _import_alias_node' = NoNode
    /\ _class_comment_fix' = NoFix
    /\ _type_defs' = {ANNOTATION_FIXES[i].fix.custom_type :
                         i \in {k \in 1..Len(ANNOTATION_FIXES) :
                                   /\ ANNOTATION_FIXES[k].fix.type = "AnnotationFix"
                                   /\ ANNOTATION_FIXES[k].fix.custom_type # None}}
    /\ _insert_type_defs' = FALSE
    /\ pc' = "visit"
    /\ pos' = next_node(module, 1, FixerHandled)
    /\ UNCHANGED <<inputs, sub, mypy_vars, updated_node, tree, printed, log, exc>>

AnnotationFixerInit ==
    /\ pc = "mypy"
    /\ pos > Len(module)
    /\ _fixes' = SelectSeq(ANNOTATION_FIXES, LAMBDA e : e.fix.module_name = mod_name)
    /\ _generated_fixes' = SelectSeq(fixes, LAMBDA f : f.type # "AddImportFix")
    /\ _add_import_fix' =
          LET imports == SelectSeq(fixes, LAMBDA f : f.type = "AddImportFix")
          IN  IF imports = <<>> THEN NoFix ELSE imports[1]
    /\ _last_class' = <<>>
    /\ _last_function' = <<>>
    /\ _import_alias_node' = NoNode
    /\ _class_comment_fix' = NoFix
    /\ _type_defs' = {ANNOTATION_FIXES[i].fix.custom_type :
                         i \in {k \in 1..Len(ANNOTATION_FIXES) :
                                   /\ ANNOTATION_FIXES[k].fix.module_name = mod_name
                                   /\ ANNOTATION_FIXES[k].fix.type = "AnnotationFix"
                                   /\ ANNOTATION_FIXES[k].fix.custom_type # None}}
    /\ _insert_type_defs' = FALSE
    /\ pc' = "visit"
    /\ pos' = next_node(module, 1, FixerHandled)
    /\ UNCHANGED <<inputs, sub, mypy_vars, updated_node, tree, printed, log, exc>>

FixerRaise(e) ==
    /\ pc' = "raised"
    /\ exc' = e
    /\ UNCHANGED <<inputs, pos, sub, mypy_vars, fixer_vars>>

\* class_name property, for a class stack that is not empty
class_name == module[_last_class[Len(_last_class)]].name

\* function_name property, for a function stack that is not empty
function_name == module[_last_function[Len(_last_function)]].name

\* _get_mypy_fix(node): the first generated fix whose node is the node
_get_mypy_fix(generated, ref) ==
    IF \E i \in 1..Len(generated) : generated[i].node = ref
    THEN generated[CHOOSE i \in 1..Len(generated) :
                       /\ generated[i].node = ref
                       /\ \A k \in 1..(i - 1) : generated[k].node # ref]
    ELSE NoFix

\* parse_expression(text) wrapped in Annotation(...)
Annotation(text) == [node |-> "Annotation", source |-> text]

\* "from m import *": names is no sequence of aliases
ImportStar == <<"*">>

VisitImportFrom ==
    /\ pc = "visit"
    /\ pos <= Len(module)
    /\ module[pos].node = "ImportFrom"
    /\ LET node == module[pos]
       IN  IF node.module.node = "None"
           THEN FixerRaise("AttributeError")
           ELSE IF /\ node.module.node = "Name"
                   /\ node.module.value = <<"PyQt6">>
                   /\ _add_import_fix # NoFix
           THEN IF node.names = ImportStar
                THEN FixerRaise("TypeError")
                ELSE /\ _import_alias_node' = Ref(pos, Len(node.names))
                     /\ pc' = "leave_ImportAlias"
                     /\ sub' = 1
                     /\ UNCHANGED <<inputs, _type_defs, _insert_type_defs, pos, mypy_vars, _last_class, _last_function,
                                    _fixes, _generated_fixes, _add_import_fix,
                                    _class_comment_fix, updated_node, tree, printed,
                                    log, exc>>
           ELSE /\ pos' = next_node(module, pos + 1, FixerHandled)
                /\ UNCHANGED <<inputs, pc, sub, mypy_vars, fixer_vars, exc>>

\* [ImportAlias(parse_expression(missing_import)) for missing_import in ...]:
\* the name of an alias is the one token of the text
new_aliases(missing_imports) == [i \in 1..Len(missing_imports) |-> missing_imports[i][1]]

\* The aliases are left in order; the first one left while an import fix is
\* pending gets the missing names appended after it.
LeaveImportAlias ==
    /\ pc = "leave_ImportAlias"
    /\ IF _import_alias_node # NoNode /\ _add_import_fix # NoFix
       THEN /\ tree' = [tree EXCEPT ![pos] =
                   <<[@[1] EXCEPT !.names =
                         SubSeq(@, 1, sub) \o new_aliases(_add_import_fix.missing_imports)
                         \o SubSeq(@, sub + 1, Len(@))]>>]
            /\ _add_import_fix' = NoFix
            /\ _import_alias_node' = NoNode
       ELSE UNCHANGED <<tree, _add_import_fix, _import_alias_node>>
    /\ IF sub = Len(module[pos].names)
       THEN /\ pc' = "visit"
            /\ pos' = next_node(module, pos + 1, FixerHandled)
            /\ sub' = 0
       ELSE /\ sub' = sub + 1
            /\ UNCHANGED <<pc, pos>>
    /\ UNCHANGED <<inputs, _type_defs, _insert_type_defs, mypy_vars, _last_class, _last_function, _fixes,
                   _generated_fixes, _class_comment_fix, updated_node, printed,
                   log, exc>>

VisitClassDef ==
    /\ pc = "visit"
    /\ pos <= Len(module)
    /\ module[pos].node = "ClassDef"
    /\ _last_class' = Append(_last_class, pos)
    /\ LET mine == SelectSeq(_generated_fixes,
                             LAMBDA f : f.node = Ref(pos, 0) /\ f.type = "CommentFix")
       IN  _class_comment_fix' = IF mine = <<>> THEN _class_comment_fix
                                 ELSE mine[Len(mine)]
    /\ pc' = "leave_TrailingWhitespace"
    /\ UNCHANGED <<inputs, _type_defs, _insert_type_defs, pos, sub, mypy_vars, _last_function, _fixes,
                   _generated_fixes, _add_import_fix, _import_alias_node,
                   updated_node, tree, printed, log, exc>>

\* The trailing whitespace of the class header, the first one after
\* visit_ClassDef.
LeaveTrailingWhitespace ==
    /\ pc = "leave_TrailingWhitespace"
    /\ IF _class_comment_fix # NoFix
       THEN /\ _generated_fixes' = list_remove(_generated_fixes, _class_comment_fix)
            /\ _class_comment_fix' = NoFix
            /\ tree' = [tree EXCEPT ![pos] =
                            <<[@[1] EXCEPT !.comment = _class_comment_fix.comment]>>]
       ELSE UNCHANGED <<_generated_fixes, _class_comment_fix, tree>>
    /\ pc' = "visit"
    /\ pos' = next_node(module, pos + 1, FixerHandled)
    /\ UNCHANGED <<inputs, _type_defs, _insert_type_defs, sub, mypy_vars, _last_class, _last_function, _fixes,
                   _add_import_fix, _import_alias_node, updated_node, printed,
                   log, exc>>

VisitFunctionDef ==
    /\ pc = "visit"
    /\ pos <= Len(module)
    /\ module[pos].node = "FunctionDef"
    /\ _last_function' = Append(_last_function, pos)
    /\ updated_node' = module[pos]
    /\ IF \E i \in 1..Len(_generated_fixes), j \in 1..Len(module[pos].decorators) :
              _generated_fixes[i].node = Ref(pos, j)
       THEN pc' = "leave_Decorator" /\ sub' = 1
       ELSE pc' = "leave_FunctionDef" /\ sub' = 0
    /\ UNCHANGED <<inputs, _type_defs, _insert_type_defs, pos, mypy_vars, _last_class, _fixes, _generated_fixes,
                   _add_import_fix, _import_alias_node, _class_comment_fix, tree,
                   printed, log, exc>>

Removed == [node |-> "Removed"]

LeaveDecorator ==
    /\ pc = "leave_Decorator"
    /\ LET mypy_fix == _get_mypy_fix(_generated_fixes, Ref(pos, sub))
       IN  IF mypy_fix.type = "CommentFix"
           THEN /\ updated_node' = [updated_node EXCEPT
                                       !.decorators[sub].comment = mypy_fix.comment]
                /\ _generated_fixes' = list_remove(_generated_fixes, mypy_fix)
           ELSE IF mypy_fix.type = "RemoveOverloadDecoratorFix"
           THEN /\ updated_node' = [updated_node EXCEPT !.decorators[sub] = Removed]
                /\ _generated_fixes' = list_remove(_generated_fixes, mypy_fix)
           ELSE UNCHANGED <<updated_node, _generated_fixes>>
    /\ IF sub = Len(module[pos].decorators)
       THEN pc' = "leave_FunctionDef" /\ sub' = 0
       ELSE sub' = sub + 1 /\ pc' = pc
    /\ UNCHANGED <<inputs, _type_defs, _insert_type_defs, pos, mypy_vars, _last_class, _last_function, _fixes,
                   _add_import_fix, _import_alias_node, _class_comment_fix, tree,
                   printed, log, exc>>

\* _fix_annotation on the parameters named like the rule parameter
annotate_params(params, fix_param) ==
    [i \in 1..Len(params) |->
        IF params[i].name # <<"self">> /\ params[i].name = fix_param.name
        THEN [params[i] EXCEPT !.annotation = Annotation(fix_param.annotation)]
        ELSE params[i]]

\* The loop of leave_FunctionDef over function_fix.params from index k on.
\* _fix_annotation reads original_param.name, which a star_arg that is no
\* Param does not have.
RECURSIVE apply_params(_, _, _)
star_annotated(named, fix_params, k) ==
    IF ~startswith_star(fix_params[k].name) THEN apply_params(named, fix_params, k + 1)
    ELSE IF named.params.star_arg.node # "Param" THEN Raised("AttributeError")
    ELSE apply_params([named EXCEPT !.params.star_arg.annotation =
                                        Annotation(fix_params[k].annotation)],
                      fix_params, k + 1)

apply_params(node, fix_params, k) ==
    IF k > Len(fix_params) THEN Returned(node)
    ELSE star_annotated([node EXCEPT !.params.params = annotate_params(@, fix_params[k])],
                        fix_params, k)

\* updated_node.with_changes(returns=Annotation(expr)) if function_fix.return_value
with_returns(r, function_fix) ==
    IF r.raised THEN r
    ELSE IF function_fix.return_value # None
    THEN Returned([r.value EXCEPT !.returns = Annotation(function_fix.return_value)])
    ELSE r

apply_fix(node, function_fix) ==
    with_returns(apply_params(node, function_fix.params, 1), function_fix)

\* The node as it stands in the tree: removed decorators are gone.
rebuilt(node) ==
    [node EXCEPT !.decorators = SelectSeq(@, LAMBDA d : d.node # "Removed")]

\* The first AddAnnotationFix of the pool for the class, 0 if there is none.
add_annotation_index(pool, cls) ==
    IF \E i \in 1..Len(pool) :
           pool[i].fix.type = "AddAnnotationFix" /\ pool[i].fix.class_name = cls
    THEN CHOOSE i \in 1..Len(pool) :
             /\ pool[i].fix.type = "AddAnnotationFix" /\ pool[i].fix.class_name = cls
             /\ \A k \in 1..(i - 1) :
                    ~(pool[k].fix.type = "AddAnnotationFix" /\ pool[k].fix.class_name = cls)
    ELSE 0

statements(annotations) == [i \in 1..Len(annotations) |-> Statement(annotations[i])]

Done(did, out, pool, generated) ==
    [raised |-> FALSE, did |-> did, out |-> out, _fixes |-> pool,
     _generated_fixes |-> generated]

\* rule_applied without self._fixes.remove(function_fix)
rule_applied_not_removed(function_fix, fixed, pool, generated) ==
    IF fixed.raised THEN fixed
    ELSE Done([what |-> "rule", tid |-> function_fix.tid], <<rebuilt(fixed.value)>>,
              pool, generated)

\* The rule branch of leave_FunctionDef once the parameters are annotated.
rule_applied(function_fix, fixed, pool, generated) ==
    IF fixed.raised THEN fixed
    ELSE Done([what |-> "rule", tid |-> function_fix.tid], <<rebuilt(fixed.value)>>,
              fixes_remove(pool, function_fix), generated)

\* The generated fix branch of leave_FunctionDef.
mypy_applied(updated, mypy_fix, pool, generated) ==
    IF mypy_fix.type = "CommentFix"
    THEN Done([what |-> "comment", tid |-> 0],
              <<rebuilt([updated EXCEPT !.comment = mypy_fix.comment])>>,
              pool, list_remove(generated, mypy_fix))
    ELSE IF mypy_fix.type = "RemoveFix"
    THEN Done([what |-> "remove", tid |-> 0], <<>>, pool, list_remove(generated, mypy_fix))
    ELSE Raised("ValueError")

\* The last branch of leave_FunctionDef: the AddAnnotationFix of the class
\* after its last method, i its index in the pool.
annotations_added(original_node, updated, pool, generated, is_last, i) ==
    IF is_last /\ i # 0
    THEN Done([what |-> "annotations", tid |-> pool[i].tid],
              <<original_node>> \o statements(pool[i].fix.annotations),
              fixes_remove(pool, pool[i]), generated)
    ELSE Done([what |-> "nothing", tid |-> 0], <<rebuilt(updated)>>, pool, generated)

\* leave_FunctionDef once _get_fix and _get_mypy_fix have returned.
branches(original_node, updated, pool, generated, cls, lcm, found, mypy_fix) ==
    IF found.raised THEN found
    ELSE IF found.value # 0
    THEN rule_applied(pool[found.value], apply_fix(updated, pool[found.value].fix),
                      pool, generated)
    ELSE IF mypy_fix # NoFix THEN mypy_applied(updated, mypy_fix, pool, generated)
    ELSE IF cls \notin DOMAIN lcm THEN Raised("KeyError")
    ELSE annotations_added(original_node, updated, pool, generated, lcm[cls] = pos,
                           add_annotation_index(pool, cls))

\* leave_FunctionDef(original_node, updated_node) inside a class: what is
\* returned and what is left of the two pools, or the exception.
leave_FunctionDef(original_node, updated, pool, generated, cls, top, lcm) ==
    branches(original_node, updated, pool, generated, cls, lcm,
             _get_fix(pool, cls, top), _get_mypy_fix(generated, Ref(pos, 0)))

\* A leave_FunctionDef whose return paths inside a class leave the function
\* on the stack.
FunctionLeft_without_pop(r) ==
    IF r.raised
    THEN /\ pc' = "raised"
         /\ exc' = r.exc
         /\ UNCHANGED <<pos, tree, log, _last_function, _fixes, _generated_fixes>>
    ELSE /\ tree' = [tree EXCEPT ![pos] = r.out]
         /\ log' = Append(log, [pos |-> pos, what |-> r.did.what, tid |-> r.did.tid])
         /\ _fixes' = r._fixes
         /\ _generated_fixes' = r._generated_fixes
         /\ _last_function' = _last_function
         /\ pc' = "visit"
         /\ pos' = next_node(module, pos + 1, FixerHandled)
         /\ exc' = exc

\* The state after leave_FunctionDef returned or raised r.
FunctionLeft(r) ==
    IF r.raised
    THEN /\ pc' = "raised"
         /\ exc' = r.exc
         /\ UNCHANGED <<pos, tree, log, _last_function, _fixes, _generated_fixes>>
    ELSE /\ tree' = [tree EXCEPT ![pos] = r.out]
         /\ log' = Append(log, [pos |-> pos, what |-> r.did.what, tid |-> r.did.tid])
         /\ _fixes' = r._fixes
         /\ _generated_fixes' = r._generated_fixes
         /\ _last_function' = SubSeq(_last_function, 1, Len(_last_function) - 1)
         /\ pc' = "visit"
         /\ pos' = next_node(module, pos + 1, FixerHandled)
         /\ exc' = exc

LeaveFunctionDef ==
    /\ pc = "leave_FunctionDef"
    /\ IF _last_class = <<>>
       THEN /\ tree' = [tree EXCEPT ![pos] = <<rebuilt(updated_node)>>]
            /\ log' = Append(log, [pos |-> pos, what |-> "no class", tid |-> 0])
            /\ _last_function' = SubSeq(_last_function, 1, Len(_last_function) - 1)
            /\ pc' = "visit"
            /\ pos' = next_node(module, pos + 1, FixerHandled)
            /\ UNCHANGED <<_fixes, _generated_fixes, exc>>
       ELSE FunctionLeft(leave_FunctionDef(module[pos], updated_node, _fixes,
                                           _generated_fixes, class_name,
                                           module[_last_function[Len(_last_function)]],
                                           last_class_method))
    /\ UNCHANGED <<inputs, _type_defs, _insert_type_defs, sub, mypy_vars, _last_class, _add_import_fix,
                   _import_alias_node, _class_comment_fix, updated_node, printed>>

LeaveClassDef ==
    /\ pc = "visit"
    /\ pos <= Len(module)
    /\ module[pos].node = "EndClassDef"
    /\ _last_class' = SubSeq(_last_class, 1, Len(_last_class) - 1)
    /\ pos' = next_node(module, pos + 1, FixerHandled)
    /\ UNCHANGED <<inputs, _type_defs, _insert_type_defs, pc, sub, mypy_vars, _last_function, _fixes,
                   _generated_fixes, _add_import_fix, _import_alias_node,
                   _class_comment_fix, updated_node, tree, printed, log, exc>>

\* print(f"ERROR: Fix was not applied: {fix}") for both pools
\* leave_Assign: the name of the first target; a target that is no Name has
\* a node as value, a tuple of targets has no value.
LeaveAssign ==
    /\ pc = "visit"
    /\ pos <= Len(module)
    /\ module[pos].node = "Assign"
    /\ IF module[pos].target.node = "Tuple"
       THEN FixerRaise("AttributeError")
       ELSE /\ _insert_type_defs' =
                  IF /\ module[pos].target.node = "Name"
                     /\ module[pos].target.value = <<"PYQT_SLOT">>
                  THEN TRUE ELSE _insert_type_defs
            /\ pc' = "leave_SimpleStatementLine"
            /\ UNCHANGED <<inputs, pos, sub, mypy_vars, _type_defs, _last_class,
                           _last_function, _fixes, _generated_fixes, _add_import_fix,
                           _import_alias_node, _class_comment_fix, updated_node, tree,
                           printed, log, exc>>

\* leave_SimpleStatementLine of the line of the assignment: the type
\* definitions follow the line, in the order in which the set yields them.
\* (On any other line self._insert_type_defs and self._type_defs is false:
\* the flag is set by the assignment only and reset here unless there is no
\* type definition at all.)
LeaveSimpleStatementLine ==
    /\ pc = "leave_SimpleStatementLine"
    /\ IF _insert_type_defs /\ _type_defs # {}
       THEN /\ \E type_defs \in [1..Cardinality(_type_defs) -> _type_defs] :
                  /\ \A t \in _type_defs :
                         \E i \in 1..Cardinality(_type_defs) : type_defs[i] = t
                  /\ tree' = [tree EXCEPT ![pos] =
                                  @ \o [i \in 1..Len(type_defs) |->
                                           Statement(type_defs[i][1])]]
            /\ _insert_type_defs' = FALSE
       ELSE UNCHANGED <<tree, _insert_type_defs>>
    /\ pc' = "visit"
    /\ pos' = next_node(module, pos + 1, FixerHandled)
    /\ UNCHANGED <<inputs, sub, mypy_vars, _type_defs, _last_class, _last_function,
                   _fixes, _generated_fixes, _add_import_fix, _import_alias_node,
                   _class_comment_fix, updated_node, printed, log, exc>>

LeaveModule ==
    /\ pc = "visit"
    /\ pos > Len(module)
    /\ printed' = [i \in 1..Len(_fixes) |-> _fixes[i]] \o
                  [i \in 1..Len(_generated_fixes) |-> _generated_fixes[i]]
    /\ pc' = "done"
    /\ UNCHANGED <<inputs, _type_defs, _insert_type_defs, pos, sub, mypy_vars, _last_class, _last_function,
                   _fixes, _generated_fixes, _add_import_fix, _import_alias_node,
                   _class_comment_fix, updated_node, tree, log, exc>>

\* ================================================================ CustomFixer
\* A subclass of FixBase: a class attribute qt_class that is None is "None",
\* which is the name of no class; fixed_code is the text of one statement
\* (is_list is FALSE and code is the statement) or a list of texts.
FixBase(module_name, class, method, is_list, code) ==
    [qt_module |-> module_name, qt_class |-> class, qt_method |-> method,
     is_list |-> is_list, fixed_code |-> code]

\* self._fixes after __init__: the subclasses of FixBase in the files of
\* fixes/custom_fixes. No two of them name the same function, so the order
\* in which glob yields the files makes no difference; each text stands as
\* the statement it parses to.
CustomFixes ==
    <<FixBase("QtCore", "None", "pyqtSlot", TRUE,
              <<Statement("T = typing.TypeVar('T')"),
                Statement("FuncT = typing.Callable[..., T]")>> \o
              [i \in 1..12 |->
                  FunctionDef("pyqtSlot", <<Decorator(TRUE)>>,
                      Parameters(<<>>, Param("types", Name("typing.Any")),
                          <<<<>>,
                            <<Param("name", Name("str"))>>,
                            <<Param("result", Name("typing.Type[T]"))>>,
                            <<Param("result", Name("str"))>>,
                            <<Param("revision", Name("int"))>>,
                            <<Param("name", Name("str")), Param("result", Name("typing.Type[T]"))>>,
                            <<Param("name", Name("str")), Param("result", Name("str"))>>,
                            <<Param("name", Name("str")), Param("revision", Name("int"))>>,
                            <<Param("result", Name("typing.Type[T]")), Param("revision", Name("int"))>>,
                            <<Param("result", Name("str")), Param("revision", Name("int"))>>,
                            <<Param("name", Name("str")), Param("result", Name("typing.Type[T]")),
                              Param("revision", Name("int"))>>,
                            <<Param("name", Name("str")), Param("result", Name("str")),
                              Param("revision", Name("int"))>>>>[i],
                          NoNode),
                      <<"typing", ".", "Callable", "[", "[", "FuncT", "[", "T", "]", "]", ", ",
                        "FuncT", "[", "T", "]", "]">>)]),
      FixBase("QtWidgets", "QLineEdit", "setText", FALSE,
              FunctionDef("setText", <<>>,
                  Parameters(<<Param("self", NoNode), Param("a0", Name("typing.Optional[str]"))>>,
                             MaybeSentinel, <<>>, NoNode),
                  <<"None">>)),
      FixBase("sip", "voidptr", "asarray", FALSE,
              FunctionDef("asarray", <<>>,
                  Parameters(<<Param("self", NoNode), Param("size", Name("int"))>>,
                             MaybeSentinel, <<>>, NoNode),
                  <<"array", "[", "int", "]">>)),
      FixBase("sip", "voidptr", "setwriteable", FALSE,
              FunctionDef("setwriteable", <<>>,
                  Parameters(<<Param("self", NoNode), Param("bool", Name("bool"))>>,
                             MaybeSentinel, <<>>, NoNode),
                  <<"None">>))>>

\* create_fix(fix): the statement, or the statements of the list flattened
\* into the place of the function.
create_fix(fix) == IF fix.is_list THEN fix.fixed_code ELSE <<fix.fixed_code>>

\* CustomFixer(file.stem) and the start of its traversal of the tree the
\* AnnotationFixer returned: mod_name is stored and not read again.
CustomFixerInit ==
    /\ pc = "done"
    /\ cf_last_class' = <<>>
    /\ pc' = "custom"
    /\ pos' = next_node(module, 1, {"ClassDef", "EndClassDef", "FunctionDef"})
    /\ UNCHANGED <<module, mod_name, ANNOTATION_FIXES, mypy_result, files, written, sub,
                   mypy_vars, fixer_vars, exc>>

CustomVisitClassDef ==
    /\ pc = "custom"
    /\ pos <= Len(module)
    /\ module[pos].node = "ClassDef"
    /\ cf_last_class' = Append(cf_last_class, pos)
    /\ pos' = next_node(module, pos + 1, {"ClassDef", "EndClassDef", "FunctionDef"})
    /\ UNCHANGED <<module, mod_name, ANNOTATION_FIXES, mypy_result, files, written, pc, sub,
                   mypy_vars, fixer_vars, exc>>

\* leave_FunctionDef of a function the AnnotationFixer left in the tree: the
\* first fix of self._fixes for the class at the bottom of the stack and the
\* name of the function, or, with no class open (IndexError), the first fix
\* without a class for the name, replaces the function.
CustomLeaveFunctionDef ==
    /\ pc = "custom"
    /\ pos <= Len(module)
    /\ module[pos].node = "FunctionDef"
    /\ LET found ==
               {i \in 1..Len(CustomFixes) :
                   /\ CustomFixes[i].qt_method = module[pos].name
                   /\ CustomFixes[i].qt_class =
                          IF cf_last_class # <<>> THEN module[cf_last_class[1]].name
                          ELSE "None"}
       IN  tree' = IF tree[pos] = <<>> \/ found = {} THEN tree
                   ELSE [tree EXCEPT ![pos] =
                            create_fix(CustomFixes[CHOOSE i \in found :
                                                       \A j \in found : i <= j])
                            \o SubSeq(@, 2, Len(@))]
    /\ pos' = next_node(module, pos + 1, {"ClassDef", "EndClassDef", "FunctionDef"})
    /\ UNCHANGED <<module, mod_name, ANNOTATION_FIXES, mypy_result, cf_last_class, files,
                   written, pc, sub, mypy_vars, _type_defs, _insert_type_defs, _last_class,
                   _last_function, _fixes, _generated_fixes, _add_import_fix,
                   _import_alias_node, _class_comment_fix, updated_node, printed, log, exc>>

CustomLeaveClassDef ==
    /\ pc = "custom"
    /\ pos <= Len(module)
    /\ module[pos].node = "EndClassDef"
    /\ cf_last_class' = SubSeq(cf_last_class, 1, Len(cf_last_class) - 1)
    /\ pos' = next_node(module, pos + 1, {"ClassDef", "EndClassDef", "FunctionDef"})
    /\ UNCHANGED <<module, mod_name, ANNOTATION_FIXES, mypy_result, files, written, pc, sub,
                   mypy_vars, fixer_vars, exc>>

\* The end of the loop body of the run: the tree is written to the file, and
\* the run goes on with the next file, its mypy output and new visitors, and
\* the same table.
WriteFile ==
    /\ pc = "custom"
    /\ pos > Len(module)
    /\ written' = Append(written, tree)
    /\ UNCHANGED <<ANNOTATION_FIXES, cf_last_class, sub, exc>>
    /\ IF files = <<>>
       THEN /\ pc' = "written"
            /\ UNCHANGED <<module, mod_name, mypy_result, files, pos, mypy_vars, fixer_vars>>
       ELSE /\ module' = files[1].module
            /\ mod_name' = files[1].mod_name
            /\ mypy_result' = files[1].mypy_result
            /\ files' = Tail(files)
            /\ pc' = "init"
            /\ pos' = 0
            /\ _errors' = <<>>
            /\ _missing_imports' = <<>>
            /\ warned' = <<>>
            /\ fixes' = <<>>
            /\ _class_functions' = <<>>
            /\ last_class_method' = <<>>
            /\ mv_last_class' = <<>>
            /\ _last_class' = <<>>
            /\ _last_function' = <<>>
            /\ _fixes' = <<>>
            /\ _generated_fixes' = <<>>
            /\ _add_import_fix' = NoFix
            /\ _import_alias_node' = NoNode
            /\ _class_comment_fix' = NoFix
            /\ _type_defs' = {}
            /\ _insert_type_defs' = FALSE
            /\ updated_node' = NoNode
            /\ tree' = [p \in 1..Len(files[1].module) |-> <<files[1].module[p]>>]
            /\ printed' = <<>>
            /\ log' = <<>>

\* ==================================================================== inputs
\* Sequences over S of length at most n.
SeqUpTo(S, n) == UNION {[1..k -> S] : k \in 0..n}

\* The lines on which a class, a function or a decorator of the module starts.
node_lines(m) ==
    {start_line(m, Ref(p, 0)) : p \in {q \in 1..Len(m) : m[q].node \in {"ClassDef", "FunctionDef"}}}
    \cup UNION {{start_line(m, Ref(p, j)) : j \in 1..Len(m[p].decorators)} :
                   p \in {q \in 1..Len(m) : m[q].node = "FunctionDef"}}

ErrorType == {"OVERRIDE", "SIGNATURE_MISMATCH", "STATIC_MISMATCH"}

\* The rule objects of a table: each rule with its place as identity.
Table(rules) == [i \in 1..Len(rules) |-> Entry(i, rules[i])]

StrText == <<"str">>
IntText == <<"int">>
OptionalStr == <<"typing", ".", "Optional", "[", "str", "]">>
AnyText == <<"typing", ".", "Any">>
QByteArrayText == <<"\"", "QByteArray", "\"">>
UnionText == <<"typing", ".", "Union", "[", "\"", "QByteArray", "\"", ", ", "bytes", "]">>

\* The state before MypyVisitor(file) is constructed, for module m of the
\* given name and rule table and the output of mypy on it.
Begin(m, name, table, result) ==
    /\ module = m
    /\ mod_name = name
    /\ ANNOTATION_FIXES = table
    /\ mypy_result = result
    /\ pc = "init"
    /\ pos = 0
    /\ sub = 0
    /\ _errors = <<>>
    /\ _missing_imports = <<>>
    /\ warned = <<>>
    /\ fixes = <<>>
    /\ _class_functions = <<>>
    /\ last_class_method = <<>>
    /\ mv_last_class = <<>>
    /\ _last_class = <<>>
    /\ _last_function = <<>>
    /\ _fixes = <<>>
    /\ _generated_fixes = <<>>
    /\ _add_import_fix = NoFix
    /\ _import_alias_node = NoNode
    /\ _class_comment_fix = NoFix
    /\ _type_defs = {}
    /\ _insert_type_defs = FALSE
    /\ updated_node = NoNode
    /\ tree = [p \in 1..Len(m) |-> <<m[p]>>]
    /\ printed = <<>>
    /\ exc = ""
    /\ log = <<>>
    /\ cf_last_class = <<>>
    /\ written = <<>>

\* ---- the output of mypy
Location(n) == <<"QtCore.pyi", ":", Numerals[n], ":", " ", "error: ">>
NameNotDefined(name) == <<"Name \"">> \o name \o <<"\" is not defined">>
OverrideMsg == <<"Signature of", " \"m\" ", "incompatible with supertype", " \"B\"">>
SignatureMismatchMsg ==
    <<"Overloaded function signature", " 2 ", "will never be matched: signature",
      " 1's ", "parameter type(s) are the same or broader">>
MessageOf(error_type) ==
    IF error_type = "OVERRIDE" THEN OverrideMsg
    ELSE IF error_type = "SIGNATURE_MISMATCH" THEN SignatureMismatchMsg
    ELSE StaticMismatchMsg

Success == <<<<"Success", ": no issues found in 1 source file">>>>
Summary == <<"Found ", "errors in 1 file (checked 1 ", "source file)">>

\* The numbers of S in increasing order.
RECURSIVE sorted(_)
sorted(S) ==
    IF S = {} THEN <<>>
    ELSE LET least == CHOOSE n \in S : \A k \in S : n <= k
         IN  <<least>> \o sorted(S \ {least})

\* The output of mypy that reports the errors (line -> ErrorType) and then
\* the missing names, each on line 1.
Output(errors, missing) ==
    IF errors = <<>> /\ missing = <<>> THEN Success
    ELSE [i \in 1..Cardinality(DOMAIN errors) |->
             Location(sorted(DOMAIN errors)[i]) \o
             MessageOf(errors[sorted(DOMAIN errors)[i]])]
         \o [i \in 1..Len(missing) |-> Location(1) \o NameNotDefined(missing[i])]
         \o <<Summary, <<>>>>

Start(m, name, table, errors, missing) ==
    /\ Begin(m, name, table, Output(errors, missing))
    /\ files = <<>>

NoErrors == <<>>

\* ---- one method, one rule: the shapes of signatures and of rules
SelfParam == Param("self", NoNode)

MatchPositional ==
    {<<>>, <<Param("a0", Name("str"))>>,
     <<Param("a0", Name("str")), Param("a1", Name("str"))>>,
     <<Param("a1", Name("str")), Param("a0", Name("str"))>>}

\* what follows the positional parameters: *name, a bare * with a
\* keyword-only parameter, **name
MatchTails ==
    {[star_arg |-> MaybeSentinel, kwonly_params |-> <<>>, star_kwarg |-> NoNode],
     [star_arg |-> Param("a1", NoNode), kwonly_params |-> <<>>, star_kwarg |-> NoNode],
     [star_arg |-> Param("a2", NoNode), kwonly_params |-> <<>>, star_kwarg |-> NoNode],
     [star_arg |-> ParamStar, kwonly_params |-> <<Param("k", Name("str"))>>,
      star_kwarg |-> NoNode],
     [star_arg |-> MaybeSentinel, kwonly_params |-> <<>>,
      star_kwarg |-> Param("kw", NoNode)]}

names_of(params) == {params[i].name : i \in 1..Len(params)}

\* a method with self or a @staticmethod without; no two parameters of a
\* function have the same name
MatchFunctions ==
    {FunctionDef("m", IF x[1] = <<>> THEN <<Decorator(FALSE)>> ELSE <<>>,
                 Parameters(x[1] \o x[2], x[3].star_arg, x[3].kwonly_params,
                            x[3].star_kwarg),
                 None) :
        x \in {y \in {<<>>, <<SelfParam>>} \X MatchPositional \X MatchTails :
                  y[3].star_arg.node = "Param" => y[3].star_arg.name \notin names_of(y[2])}}

MatchEntries ==
    {FixParameter(<<n>>, OptionalStr, c) : n \in {"a0", "a1"}, c \in {StrText, IntText}}
    \cup {FixParameter(<<"*", n>>, AnyText, None) : n \in {"a1", "a2"}}

MatchRules ==
    {AnnotationFix("QtCore", "C", "m", ps, None, None, st) :
        ps \in SeqUpTo(MatchEntries, MaxFixParams), st \in BOOLEAN}

InitMatch ==
    \E f \in MatchFunctions, r \in MatchRules :
        Start(<<ClassDef("C"), f, EndClassDef>>, "QtCore", Table(<<r>>), NoErrors, <<>>)

\* ---- one parameter, one rule entry: the shapes of annotations
QtCoreQByteArray == Attribute(Name("QtCore"), "QByteArray")
TypingOptional == Attribute(Name("typing"), "Optional")

CodeAnnotations ==
    {NoNode, Name("str"), SimpleString("'", "QByteArray"), SimpleString("\"", "QByteArray"),
     QtCoreQByteArray,
     Attribute(Attribute(Name("QtCore"), "Qt"), "GestureType"),
     Attribute(Attribute(Attribute(Name("PyQt6"), "QtCore"), "Qt"), "GestureType"),
     Subscript(TypingOptional, <<Name("str")>>),
     Subscript(Attribute(Name("typing"), "Union"),
               <<SimpleString("'", "QByteArray"), Name("bytes")>>),
     Subscript(TypingOptional, <<Subscript(TypingOptional, <<Name("str")>>)>>),
     Subscript(TypingOptional, <<QtCoreQByteArray>>),
     Subscript(Name("List"), <<Name("str")>>),
     BinaryOperation}

CodeTexts ==
    {None, StrText, QByteArrayText, <<"'", "QByteArray", "'">>,
     <<"QtCore", ".", "QByteArray">>, <<"QtCore", ".", "Qt", ".", "GestureType">>,
     OptionalStr, UnionText}

InitCode ==
    \E a \in CodeAnnotations, c \in CodeTexts :
        Start(<<ClassDef("C"),
                FunctionDef("m", <<>>,
                            Parameters(<<SelfParam, Param("a0", a)>>, MaybeSentinel,
                                       <<>>, NoNode),
                            None),
                EndClassDef>>,
              "QtCore",
              Table(<<AnnotationFix("QtCore", "C", "m",
                                    <<FixParameter(<<"a0">>, OptionalStr, c)>>,
                                    None, None, FALSE)>>),
              NoErrors, <<>>)

\* ---- one class, some methods, some rules: the pool over a traversal
Signature(ps, star) == Parameters(ps, star, <<>>, NoNode)

PoolFunctions ==
    {FunctionDef("m", <<>>, Signature(<<SelfParam, Param("a0", Name("str"))>>, MaybeSentinel), None),
     FunctionDef("m", <<>>, Signature(<<SelfParam, Param("a0", Name("int"))>>, MaybeSentinel), None),
     FunctionDef("m", <<>>,
                 Signature(<<SelfParam, Param("a0", Name("str")), Param("a1", Name("str"))>>,
                           MaybeSentinel),
                 None),
     FunctionDef("m", <<>>,
                 Signature(<<SelfParam, Param("a0", Name("str"))>>, Param("a1", NoNode)),
                 None),
     FunctionDef("n", <<Decorator(FALSE)>>,
                 Signature(<<Param("a0", Name("str"))>>, MaybeSentinel), None)}

PoolRules ==
    {AnnotationFix("QtCore", "C", "m", <<FixParameter(<<"a0">>, OptionalStr, StrText)>>,
                   None, None, FALSE),
     AnnotationFix("QtCore", "C", "m", <<FixParameter(<<"a0">>, OptionalStr, IntText)>>,
                   None, None, FALSE),
     AnnotationFix("QtCore", "C", "m",
                   <<FixParameter(<<"a0">>, OptionalStr, StrText),
                     FixParameter(<<"a1">>, OptionalStr, StrText)>>,
                   StrText, None, FALSE),
     AnnotationFix("QtCore", "C", "m",
                   <<FixParameter(<<"a0">>, OptionalStr, StrText),
                     FixParameter(<<"*", "a1">>, AnyText, None)>>,
                   None, None, FALSE),
     AnnotationFix("QtCore", "C", "n", <<FixParameter(<<"a0">>, OptionalStr, StrText)>>,
                   None, None, TRUE),
     AnnotationFix("QtCore", "D", "m", <<FixParameter(<<"a0">>, OptionalStr, StrText)>>,
                   None, None, FALSE)}

InitPool ==
    \E fs \in SeqUpTo(PoolFunctions, MaxMethods) \ {<<>>}, rs \in SeqUpTo(PoolRules, MaxRules) :
        Start(<<ClassDef("C")>> \o fs \o <<EndClassDef>>, "QtCore", Table(rs), NoErrors, <<>>)

\* ---- diagnostics: a module-level function, a class, decorated methods
MypyMethod(decs) ==
    FunctionDef("m", decs, Signature(<<SelfParam, Param("a0", Name("str"))>>, MaybeSentinel), None)

MypyBodies ==
    {<<MypyMethod(<<>>)>>,
     <<MypyMethod(<<Decorator(FALSE)>>)>>,
     <<MypyMethod(<<Decorator(TRUE)>>), MypyMethod(<<Decorator(TRUE)>>)>>,
     <<MypyMethod(<<Decorator(FALSE), Decorator(TRUE)>>), MypyMethod(<<Decorator(TRUE)>>)>>,
     <<MypyMethod(<<Decorator(TRUE)>>), MypyMethod(<<Decorator(TRUE)>>),
       MypyMethod(<<Decorator(TRUE)>>)>>,
     <<MypyMethod(<<Decorator(TRUE)>>), ClassDef("D"), MypyMethod(<<Decorator(TRUE)>>),
       EndClassDef, MypyMethod(<<Decorator(TRUE)>>)>>}

MypyModules ==
    {top \o <<ClassDef("C")>> \o body \o <<EndClassDef>> :
        top \in {<<>>, <<FunctionDef("g", <<>>, Signature(<<>>, MaybeSentinel), None)>>,
                 <<FunctionDef("m", <<>>, Signature(<<>>, MaybeSentinel), None)>>},
        body \in MypyBodies}

\* _errors after _parse_mypy_result: at most MaxErrors lines with an error type
Errors(m) ==
    UNION {[L -> ErrorType] : L \in {K \in SUBSET node_lines(m) : Cardinality(K) <= MaxErrors}}

MypyTables ==
    {<<>>,
     <<AnnotationFix("QtCore", "C", "m", <<FixParameter(<<"a0">>, OptionalStr, StrText)>>,
                     None, None, FALSE)>>,
     <<AnnotationFix("QtGui", "C", "m", <<FixParameter(<<"a0">>, OptionalStr, StrText)>>,
                     None, None, FALSE),
       AddAnnotationFix("QtCore", "C", <<"x">>)>>}

InitMypy ==
    \E m \in MypyModules, t \in MypyTables :
        \E e \in Errors(m) : Start(m, "QtCore", Table(t), e, <<>>)

\* ---- missing names: the imports of the module and the names mypy misses
Imports ==
    {<<>>,
     <<ImportFrom(Name("PyQt6"), <<"QtCore">>)>>,
     <<ImportFrom(Name("PyQt6"), <<"sip", "QtCore">>)>>,
     <<ImportFrom(Name("typing"), <<"overload">>), ImportFrom(Name("PyQt6"), <<"sip">>)>>,
     <<ImportFrom(Name("PyQt6"), ImportStar)>>,
     <<ImportFrom(Name("PyQt6"), <<"sip">>), ImportFrom(Name("PyQt6"), <<"QtNetwork", "QtXml">>)>>,
     <<ImportFrom(NoNode, <<"sip">>)>>,
     <<ImportFrom(Attribute(Name("PyQt6"), "QtCore"), <<"Qt">>)>>}

MissingImports == {<<>>, <<<<"QtGui">>>>, <<<<"QtCore">>, <<"QtGui">>, <<"QtCore">>>>}

InitImport ==
    \E i \in Imports, missing \in MissingImports :
        Start(i \o <<ClassDef("C"), MypyMethod(<<>>), EndClassDef>>, "QtWidgets", Table(<<>>),
              NoErrors, missing)

\* ---- the lines of the mypy output: error lines of every pattern, with a
\* dotted and a foreign name, an unused-ignore message no pattern matches, a
\* note, and two lines without a line number (no colon at all, no number
\* after the first colon). The module of InitParse has its import on line
\* 1, its class on line 2, the decorator of the method on line 3 and the
\* method on line 4.
ParseLines ==
    {Location(4) \o error_msg :
        error_msg \in
            {OverrideMsg, SignatureMismatchMsg, StaticMismatchMsg,
             <<"Return type \"int\" of \"m\"", " incompatible with return type ",
               "\"str\" in supertype \"B\"">>,
             NameNotDefined(<<"QtGui">>), NameNotDefined(<<"QtCore">>),
             NameNotDefined(<<"QtCore", ".", "Qt">>), NameNotDefined(<<"QtWidgets">>),
             <<"Unused \"type: ignore\" comment">>}}
    \cup {Location(3) \o OverrideMsg, Location(3) \o StaticMismatchMsg,
          <<"QtCore.pyi", ":", "4", ":", " ", "note: ", "See the documentation">>,
          <<"Traceback (most recent call last)">>,
          <<"QtCore.pyi", ":", " ", "error: ",
            "Source file found twice under different module names">>}

InitParse ==
    \E body \in SeqUpTo(ParseLines, MaxLines) \ {<<>>} :
        /\ Begin(<<ImportFrom(Name("PyQt6"), <<"sip">>), ClassDef("C"),
                   MypyMethod(<<Decorator(FALSE)>>), EndClassDef>>,
                 "QtCore", Table(<<>>), body \o <<Summary, <<>>>>)
        /\ files = <<>>

\* ---- custom type definitions and the assignments they are inserted after
TypeDefRules ==
    {AnnotationFix("QtCore", "C", "m", <<FixParameter(<<"a0">>, OptionalStr, StrText)>>,
                   None, custom_type, FALSE) :
        custom_type \in {None, <<"QtBytes = typing.Union[QByteArray, bytes]">>,
                         <<"QtNumber = typing.Union[int, float]">>}}
    \cup {AnnotationFix("QtGui", "C", "m", <<FixParameter(<<"a0">>, OptionalStr, StrText)>>,
                        None, <<"QtNumber = typing.Union[int, float]">>, FALSE),
          AnnotationFix("QtCore", "D", "m", <<FixParameter(<<"a0">>, OptionalStr, StrText)>>,
                        None, <<"QtNumber = typing.Union[int, float]">>, FALSE),
          AddAnnotationFix("QtCore", "C", <<"x">>)}

Assignments ==
    {<<Assign(Name("PYQT_SIGNAL")), Assign(Name("PYQT_SLOT"))>>,
     <<Assign(Name("PYQT_SLOT")), Assign(Name("PYQT_SIGNAL")), Assign(Name("PYQT_SLOT"))>>,
     <<Assign(Name("PYQT_SIGNAL"))>>,
     <<Assign(Name("PYQT_SLOT")), Statement("QtNumber = typing.Union[int, float]")>>,
     <<Assign(Attribute(Name("QtCore"), "PYQT_SLOT"))>>,
     <<Assign([node |-> "Tuple"])>>}

InitTypeDefs ==
    \E a \in Assignments, rs \in SeqUpTo(TypeDefRules, MaxRules) :
        Start(a \o <<ClassDef("C"), MypyMethod(<<>>), EndClassDef>>, "QtCore", Table(rs),
              NoErrors, <<>>)

\* The disjuncts after the families: a rule with two entries of one name and
\* different annotations, in both orders, and a method with a ** parameter;
\* modules with the functions the custom fixes name, at module level, in
\* their class, in a class nested in it and in their class nested in
\* another; runs over several files with rules for two modules.
Init ==
    \/ InitMatch \/ InitCode \/ InitPool \/ InitMypy \/ InitImport \/ InitParse
    \/ InitTypeDefs
    \/ \E ps \in {<<FixParameter(<<"a0">>, OptionalStr, StrText),
                     FixParameter(<<"a0">>, AnyText, IntText)>>,
                   <<FixParameter(<<"a0">>, AnyText, IntText),
                     FixParameter(<<"a0">>, OptionalStr, StrText)>>} :
           Start(<<ClassDef("C"),
                   FunctionDef("m", <<>>,
                               Parameters(<<SelfParam, Param("a0", Name("str"))>>,
                                          MaybeSentinel, <<>>, Param("kw", NoNode)),
                               None),
                   EndClassDef>>,
                 "QtCore", Table(<<AnnotationFix("QtCore", "C", "m", ps, None, None, FALSE)>>),
                 NoErrors, <<>>)
    \/ \E setText \in {FunctionDef("setText", <<>>,
                                     Signature(<<SelfParam, Param("a0", Name("str"))>>,
                                               MaybeSentinel), None)} :
       \E name \in {"QtCore", "QtWidgets"},
          top \in {<<>>,
                   <<FunctionDef("pyqtSlot", <<>>,
                                 Parameters(<<>>, Param("types", NoNode), <<>>, NoNode), None)>>,
                   <<FunctionDef("setText", <<>>, Signature(<<>>, MaybeSentinel), None)>>},
          body \in {<<ClassDef("QLineEdit"), setText, EndClassDef>>,
                    <<ClassDef("QLineEdit"), ClassDef("D"), setText, EndClassDef,
                      setText, EndClassDef>>,
                    <<ClassDef("D"), ClassDef("QLineEdit"), setText, EndClassDef,
                      EndClassDef>>,
                    <<ClassDef("D"),
                      FunctionDef("pyqtSlot", <<>>, Signature(<<SelfParam>>, MaybeSentinel),
                                  None),
                      EndClassDef>>,
                    <<ClassDef("QLineEdit"),
                      FunctionDef("text", <<>>, Signature(<<SelfParam>>, MaybeSentinel), None),
                      setText, EndClassDef>>} :
           Start(top \o body, name, Table(<<>>), NoErrors, <<>>)
    \/ \E name \in {"QtCore", "QtGui"},
          rs \in SeqUpTo({AnnotationFix("QtCore", "C", "m",
                                        <<FixParameter(<<"a0">>, OptionalStr, StrText)>>,
                                        None, None, FALSE),
                          AnnotationFix("QtGui", "C", "m",
                                        <<FixParameter(<<"a0">>, AnyText, StrText)>>,
                                        None, None, FALSE),
                          AddAnnotationFix("QtCore", "C", <<"x">>)}, MaxRules),
          fs \in SeqUpTo({[module |-> <<ClassDef("C"), MypyMethod(<<>>), EndClassDef>>,
                           mod_name |-> n, mypy_result |-> Success] :
                             n \in {"QtCore", "QtGui"}}, MaxFiles) \ {<<>>} :
           /\ Begin(<<ClassDef("C"), MypyMethod(<<>>), EndClassDef>>, name, Table(rs),
                    Success)
           /\ files = fs
Next ==
    \/ MypyVisitorInit
    \/ MypyVisitClassDef
    \/ MypyVisitFunctionDef
    \/ MypyLeaveFunctionDef
    \/ MypyLeaveClassDef
    \/ AnnotationFixerInit
    \/ VisitImportFrom
    \/ LeaveImportAlias
    \/ VisitClassDef
    \/ LeaveTrailingWhitespace
    \/ VisitFunctionDef
    \/ LeaveDecorator
    \/ LeaveFunctionDef
    \/ LeaveClassDef
    \/ LeaveAssign
    \/ LeaveSimpleStatementLine
    \/ LeaveModule
    \/ CustomFixerInit
    \/ CustomVisitClassDef
    \/ CustomLeaveFunctionDef
    \/ CustomLeaveClassDef
    \/ WriteFile
Spec == Init /\ [][Next]_vars

\* ================================================================ properties
\* What the leave_FunctionDef that just returned did.
did == log'[Len(log')]
FunctionReturned == pc = "leave_FunctionDef" /\ pc' = "visit"

\* C1: every rule match in leave_FunctionDef removes exactly the matched rule
\* object from the pool of the module: the pool shrinks by one, the other
\* rules stay as they are and in their order, no rule object is applied to
\* two functions, and a leave_FunctionDef that applies no rule and adds no
\* annotations leaves the pool alone.
C1_MatchedRuleRemoved ==
    [][FunctionReturned =>
          IF did.what = "rule"
          THEN /\ Len(_fixes') = Len(_fixes) - 1
               /\ \E i \in 1..Len(_fixes) :
                      /\ _fixes[i].tid = did.tid
                      /\ _fixes' = SubSeq(_fixes, 1, i - 1) \o SubSeq(_fixes, i + 1, Len(_fixes))
               /\ \A k \in 1..Len(log) : ~(log[k].what = "rule" /\ log[k].tid = did.tid)
          ELSE did.what # "annotations" => _fixes' = _fixes]_vars

\* Two rules of a pool of equal rules were applied, each to one function.
C1_Witness ==
    /\ pc = "done"
    /\ Len(log) = 2
    /\ log[1].what = "rule" /\ log[2].what = "rule"
    /\ ANNOTATION_FIXES[1].fix = ANNOTATION_FIXES[2].fix
    /\ _fixes = <<>>

\* ---- what the claims speak of
Functions == {p \in 1..Len(module) : module[p].node = "FunctionDef"}

\* The rules of the table that are rules of the module.
ModuleRules ==
    {i \in 1..Len(ANNOTATION_FIXES) : ANNOTATION_FIXES[i].fix.module_name = mod_name}

InClass(p) == open_classes(module, p) # <<>>
ClassOf(p) == module[open_classes(module, p)[Len(open_classes(module, p))]].name

\* The rule is for the class and the method name of the function at p.
NameMatch(fix, p) ==
    /\ fix.type = "AnnotationFix"
    /\ InClass(p)
    /\ fix.class_name = ClassOf(p)
    /\ fix.method_name = module[p].name

\* The rule fully matches the function at p: names, parameter count, every
\* parameter's name and current annotation, the variadic parameter.
Matches(fix, p) ==
    /\ NameMatch(fix, p)
    /\ ~count_mismatch(fix, module[p])
    /\ _check_parameters(module[p], fix) = Returned(TRUE)
    /\ ~star_unmatched(fix, module[p])

\* Each function of F is fully matched by its own rule of Rs, and each rule
\* of Rs is the rule of a function.
Paired(F, Rs) ==
    \E b \in [F -> Rs] :
        /\ \A p, q \in F : p # q => b[p] # b[q]
        /\ \A i \in Rs : \E p \in F : b[p] = i
        /\ \A p \in F : Matches(ANNOTATION_FIXES[b[p]].fix, p)

\* C2: in a module without diagnostics whose N functions are each fully
\* matched by a distinct one of the N rules, the traversal ends with both
\* pools empty, whatever the order of functions and rules; with one more rule
\* that matches no function, that rule alone remains and is reported.
C2_AllRulesConsumed ==
    (pc = "done" /\ _errors = <<>>) =>
        /\ Paired(Functions, ModuleRules) => _fixes = <<>> /\ _generated_fixes = <<>>
        /\ \A u \in ModuleRules :
               (/\ Paired(Functions, ModuleRules \ {u})
                /\ \A p \in Functions : ~Matches(ANNOTATION_FIXES[u].fix, p))
               => /\ _fixes = <<ANNOTATION_FIXES[u]>>
                  /\ printed = <<ANNOTATION_FIXES[u]>>

\* The module has a "from PyQt6 import <names>" statement.
HasPyQt6Import ==
    \E p \in 1..Len(module) :
        /\ module[p].node = "ImportFrom"
        /\ module[p].module = Name("PyQt6")
        /\ module[p].names # ImportStar

\* C3: every fix the classifier produced is consumed by the traversal:
\* at leave_Module no CommentFix, RemoveFix or RemoveOverloadDecoratorFix is
\* pending, whatever its target, and no AddImportFix if the module has the
\* import statement it extends.
C3_GeneratedFixesConsumed ==
    pc = "done" =>
        /\ _generated_fixes = <<>>
        /\ HasPyQt6Import => _add_import_fix = NoFix

Reported(item) == \E k \in 1..Len(printed) : printed[k] = item

\* C4: at the end of the traversal every rule still in the pool and every
\* pending fix, a pending AddImportFix included, has its "Fix was not
\* applied" line.
C4_UnconsumedReported ==
    pc = "done" =>
        /\ \A i \in 1..Len(_fixes) : Reported(_fixes[i])
        /\ \A i \in 1..Len(_generated_fixes) : Reported(_generated_fixes[i])
        /\ _add_import_fix # NoFix => Reported(_add_import_fix)

\* The first rule of the pool that fully matches the function at p.
FirstMatch(p) ==
    CHOOSE i \in 1..Len(_fixes) :
        /\ Matches(_fixes[i].fix, p)
        /\ \A k \in 1..(i - 1) : ~Matches(_fixes[k].fix, p)

\* C5: for a method that some rule of the pool fully matches, _get_fix
\* returns the first such rule in pool order; rules of the same class and
\* method name that fail the count or the variadic check before it do not
\* prevent this.
C5_FirstFullMatchWins ==
    (/\ pc = "leave_FunctionDef"
     /\ \E i \in 1..Len(_fixes) : Matches(_fixes[i].fix, pos))
    => _get_fix(_fixes, class_name, module[pos]) = Returned(FirstMatch(pos))

\* The parameters a function declares: the separator "*" is none.
declared_count(params) ==
    Len(params.posonly_params) + Len(params.params)
    + (IF params.star_arg.node = "Param" THEN 1 ELSE 0)
    + Len(params.kwonly_params)
    + (IF params.star_kwarg.node = "Param" THEN 1 ELSE 0)

RuleOf(entry) == ANNOTATION_FIXES[entry.tid].fix

\* C6: a static rule is applied only to functions that declare as many
\* parameters as the rule has, a rule that is not static only to functions
\* that declare one more.
C6_DeclaredCount ==
    \A k \in 1..Len(log) :
        log[k].what = "rule" =>
            declared_count(module[log[k].pos].params) =
                Len(RuleOf(log[k]).params) + (IF RuleOf(log[k]).static THEN 0 ELSE 1)

\* ---- parameters and rule entries
Positional(p) == module[p].params.params
IsReceiver(param) == param.name = <<"self">>

\* The rule entry has the name and the current annotation of the parameter.
SameParameter(entry, param) ==
    /\ entry.name = param.name
    /\ IF param.annotation.node = "None" THEN entry.current_annotation = None
       ELSE /\ ~_code(param.annotation).raised
            /\ replace_quotes(_code(param.annotation).value) = entry.current_annotation

HasEntry(fix, param) == \E j \in 1..Len(fix.params) : SameParameter(fix.params[j], param)

\* Some parameter of the function at p other than the receiver has no entry
\* in the rule with its name and its current annotation.
ParamMismatch(fix, p) ==
    \E i \in 1..Len(Positional(p)) :
        ~IsReceiver(Positional(p)[i]) /\ ~HasEntry(fix, Positional(p)[i])

Unchanged(p) == tree[p] = <<module[p]>>

Selected == _get_fix(_fixes, class_name, module[pos])
Selects == pc = "leave_FunctionDef" /\ _last_class # <<>> /\ ~Selected.raised /\ Selected.value # 0
SelectedRule == _fixes[Selected.value].fix

IsStar(entry) == startswith_star(entry.name)
HasVariadic(p) == module[p].params.star_arg.node = "Param"
NamesVariadic(entry, p) == entry.name = <<"*">> \o module[p].params.star_arg.name

\* C8: when a rule matches a function, the function is returned with the
\* desired annotation of every rule parameter on the parameter of that name
\* (the variadic parameter for a star entry), so every rule parameter has
\* its parameter; the return annotation is replaced exactly if the rule has
\* a return override; the receiver, the name, the decorators and the body
\* are as they were.
C8_RuleApplication ==
    [][Selects =>
          /\ pc' = "visit"
          /\ Len(tree'[pos]) = 1
          /\ \A j \in 1..Len(SelectedRule.params) :
                 IF IsStar(SelectedRule.params[j])
                 THEN /\ HasVariadic(pos)
                      /\ NamesVariadic(SelectedRule.params[j], pos)
                      /\ tree'[pos][1].params.star_arg.annotation =
                             Annotation(SelectedRule.params[j].annotation)
                 ELSE \E i \in 1..Len(Positional(pos)) :
                          /\ Positional(pos)[i].name = SelectedRule.params[j].name
                          /\ tree'[pos][1].params.params[i].annotation =
                                 Annotation(SelectedRule.params[j].annotation)
          /\ tree'[pos][1].returns =
                 IF SelectedRule.return_value # None
                 THEN Annotation(SelectedRule.return_value)
                 ELSE module[pos].returns
          /\ \A i \in 1..Len(Positional(pos)) :
                 IsReceiver(Positional(pos)[i])
                 => tree'[pos][1].params.params[i] = Positional(pos)[i]
          /\ tree'[pos][1].name = module[pos].name
          /\ tree'[pos][1].decorators = rebuilt(updated_node).decorators
          /\ tree'[pos][1].comment = module[pos].comment]_vars

\* C9: a rule with a star entry is selected only for a function that has a
\* variadic parameter which a star entry of the rule names; and the first
\* rule for the class and method name of a function, if it fully matches
\* the function, its variadic parameter included, is selected.
C9_StarParameter ==
    /\ Selects =>
           ((\E j \in 1..Len(SelectedRule.params) : IsStar(SelectedRule.params[j]))
            => /\ HasVariadic(pos)
               /\ \E j \in 1..Len(SelectedRule.params) :
                      NamesVariadic(SelectedRule.params[j], pos))
    /\ (pc = "leave_FunctionDef" /\ _last_class # <<>>) =>
           \A i \in 1..Len(_fixes) :
               (/\ Matches(_fixes[i].fix, pos)
                /\ HasVariadic(pos)
                /\ \A k \in 1..(i - 1) : ~NameMatch(_fixes[k].fix, pos))
               => Selected = Returned(i)

\* The children of a parameter list that are no parameter named self.
count_without_receiver(params) ==
    child_count(params)
    - Cardinality({i \in 1..Len(params.params) : IsReceiver(params.params[i])})

FirstCandidate ==
    CHOOSE i \in 1..Len(_fixes) :
        /\ NameMatch(_fixes[i].fix, pos)
        /\ \A k \in 1..(i - 1) : ~NameMatch(_fixes[k].fix, pos)

C11_ConflictAsserts ==
    [][(/\ pc = "leave_FunctionDef"
        /\ _last_class # <<>>
        /\ ~Selected.raised
        /\ Selected.value # 0
        /\ _get_mypy_fix(_generated_fixes, Ref(pos, 0)) # NoFix)
       => (pc' = "raised" /\ exc' = "AssertionError")]_vars

\* ---- the overloads of a class
\* The class the function at p is directly in, 0 outside of every class.
ClassAt(p) ==
    IF InClass(p) THEN open_classes(module, p)[Len(open_classes(module, p))] ELSE 0

Classes == {c \in 1..Len(module) : module[c].node = "ClassDef"}
MethodsNamed(c, n) == {p \in Functions : ClassAt(p) = c /\ module[p].name = n}
IsRemoved(p) == \E i \in 1..Len(fixes) : fixes[i] = RemoveFix(Ref(p, 0))
Remaining(c, n) == {p \in MethodsNamed(c, n) : ~IsRemoved(p)}
OverloadDecorators(p) ==
    {j \in 1..Len(module[p].decorators) : _is_overload_decorator(module[p].decorators[j])}
Emitted(fix) == \E i \in 1..Len(fixes) : fixes[i] = fix

\* C12: when the functions with a RemoveFix are taken out of a class and
\* exactly one function of a name is left that has an overload decorator,
\* the classifier has a RemoveOverloadDecoratorFix for that decorator, and
\* the rewritten class has that one function, without overload decorator.
C12_LastOverloadUndecorated ==
    pc = "done" =>
        \A c \in Classes, n \in {module[p].name : p \in Functions} :
            (/\ \E p \in MethodsNamed(c, n) : IsRemoved(p)
             /\ Cardinality(Remaining(c, n)) = 1
             /\ \E p \in Remaining(c, n) : OverloadDecorators(p) # {})
            => \A p \in Remaining(c, n) :
                   /\ \A j \in OverloadDecorators(p) :
                          Emitted(RemoveOverloadDecoratorFix(Ref(p, j)))
                   /\ tree[p] # <<>>
                   /\ \A j \in 1..Len(tree[p][1].decorators) :
                          ~_is_overload_decorator(tree[p][1].decorators[j])
                   /\ \A q \in MethodsNamed(c, n) \ {p} : tree[q] = <<>>

\* The function q is the one function of the class of p, p apart, that has
\* the name of p.
SoleSibling(p, q) ==
    /\ InClass(p)
    /\ MethodsNamed(ClassAt(p), module[p].name) \ {p} = {q}

\* C13: the RemoveOverloadDecoratorFix of a module are those of the
\* overload decorators of a function that is, in the class of a function
\* with a RemoveFix, the one other function of that name: functions of other
\* classes and of the module are neither counted nor targeted, and no fix is
\* emitted twice.
C13_CascadeWithinClass ==
    pc \in {"visit", "done"} =>
        /\ \A i \in 1..Len(fixes) :
               fixes[i].type = "RemoveOverloadDecoratorFix"
               => /\ \E p \in Functions :
                         IsRemoved(p) /\ SoleSibling(p, fixes[i].node.pos)
                  /\ \A k \in 1..Len(fixes) : fixes[k] = fixes[i] => k = i
        /\ \A p, q \in Functions :
               (IsRemoved(p) /\ SoleSibling(p, q))
               => \A j \in OverloadDecorators(q) :
                      Emitted(RemoveOverloadDecoratorFix(Ref(q, j)))

\* ---- missing imports
\* The "from PyQt6 import a, b" statements of the module.
PyQt6Imports ==
    {p \in 1..Len(module) :
        /\ module[p].node = "ImportFrom"
        /\ module[p].module = Name("PyQt6")
        /\ module[p].names # ImportStar}

count(names, x) == Cardinality({i \in 1..Len(names) : names[i] = x})
MissingNames == {_missing_imports[i][1] : i \in 1..Len(_missing_imports)}
FirstPyQt6Import == CHOOSE p \in PyQt6Imports : \A q \in PyQt6Imports : p <= q

C15_PendingImportIsFatal ==
    ~(pc = "done" /\ PyQt6Imports = {} /\ _add_import_fix # NoFix)

\* ---- diagnostics on the lines of one function
\* The lines of the function at p, those of its decorators and its own, for
\* which an error type is recorded.
ErrorLines(p) ==
    {start_line(module, Ref(p, j)) : j \in 0..Len(module[p].decorators)} \cap DOMAIN _errors

\* C16: when two lines of one function have error types recorded that lead
\* to different fixes, leaving the function in the classifier raises; no
\* fix is created for one of them.
C16_ConflictingLinesRaise ==
    [][(/\ pc = "mypy_leave_FunctionDef"
        /\ \E a, b \in ErrorLines(pos) : _errors[a] # _errors[b])
       => (pc' = "raised" /\ fixes' = fixes)]_vars

\* ---- the lines of the mypy output, read without the parser
Colons(line) == {i \in 1..Len(line) : line[i] = ":"}
FirstColon(line) == CHOOSE i \in Colons(line) : \A k \in Colons(line) : i <= k

\* file:number: a numeral is all there is between the first two colons
NumberedLine(line) ==
    /\ Colons(line) # {}
    /\ FirstColon(line) + 1 <= Len(line)
    /\ \E n \in 1..Len(Numerals) : Numerals[n] = line[FirstColon(line) + 1]
    /\ FirstColon(line) + 2 <= Len(line) => line[FirstColon(line) + 2] = ":"

LineNbr(line) == CHOOSE n \in 1..Len(Numerals) : Numerals[n] = line[FirstColon(line) + 1]
HasError(line) == \E i \in 1..Len(line) : line[i] = "error: "
Message(line) ==
    SubSeq(line, (CHOOSE i \in 1..Len(line) : line[i] = "error: ") + 1, Len(line))

IsEmptyLine(line) == line = <<>>
IsSummaryLine(line) ==
    line # <<>> /\ line[1] = "Found " /\ line[Len(line)] = "source file)"
IsNote(line) == NumberedLine(line) /\ ~HasError(line)
IsErrorLine(line) == NumberedLine(line) /\ HasError(line)
IsMalformed(line) == ~IsEmptyLine(line) /\ ~IsSummaryLine(line) /\ ~NumberedLine(line)

HasLine(Is(_)) == \E i \in 1..Len(mypy_result) : Is(mypy_result[i])
ParsingStarts == pc = "init" /\ ~startswith_Success(mypy_result)

\* The line left its number in the error types, its name in the missing
\* imports, or itself in the warnings.
Accounted(line, errors, missing, warnings) ==
    \/ LineNbr(line) \in DOMAIN errors
    \/ /\ Message(line)[1] = "Name \""
       /\ \E k \in 1..Len(missing) :
              missing[k] = SubSeq(Message(line), 2, Len(Message(line)) - 1)
    \/ \E k \in 1..Len(warnings) :
           warnings[k] = [line_nbr |-> LineNbr(line), error_msg |-> Message(line)]

\* The construction ended as the parsing result ref says it does.
EndsAs(ref, added) ==
    IF ref.raised \/ added.raised
    THEN pc' = "raised" /\ exc' = (IF ref.raised THEN ref.exc ELSE added.exc)
    ELSE /\ pc' # "raised"
         /\ _errors' = ref._errors
         /\ _missing_imports' = ref._missing_imports
         /\ fixes' \in added.value

EndsAsParsed(ref) == EndsAs(ref, missing_imports_fix(ref))

\* C17: for every line of the mypy output: the empty line, the summary line
\* and a note (a line number, no "error: ") change nothing of the outcome; a
\* line without a line number that is none of these makes the construction
\* raise; and when the construction does not raise, every line with a line
\* number and a message is accounted for.
C17_LinesParsed ==
    [][ParsingStarts =>
          /\ HasLine(IsMalformed) => pc' = "raised"
          /\ EndsAsParsed(_parse_mypy_result(
                 SelectSeq(mypy_result,
                           LAMBDA line : IsErrorLine(line) \/ IsMalformed(line))))
          /\ pc' # "raised" =>
                 \A i \in 1..Len(mypy_result) :
                     IsErrorLine(mypy_result[i]) =>
                         Accounted(mypy_result[i], _errors', _missing_imports', warned')
       ]_vars

\* A note, an error line, the summary and the empty line were parsed, and
\* the error line left its error type.
C17_Witness ==
    /\ pc = "mypy"
    /\ HasLine(IsNote) /\ HasLine(IsErrorLine)
    /\ HasLine(IsSummaryLine) /\ HasLine(IsEmptyLine)
    /\ _errors # <<>>

\* ---- messages no pattern matches
IsUnmatched(line) ==
    /\ IsErrorLine(line)
    /\ ~name_not_defined(Message(line))
    /\ Message(line) # StaticMismatchMsg
    /\ ~is_override(Message(line))
    /\ ~is_signature_mismatch(Message(line))

Warnings(lines) ==
    [i \in 1..Len(lines) |->
        [line_nbr |-> LineNbr(lines[i]), error_msg |-> Message(lines[i])]]

IsForeignName(line) ==
    /\ IsErrorLine(line)
    /\ name_not_defined(Message(line))
    /\ group_1(Message(line)) \notin {<<"QtCore">>, <<"QtGui">>}

\* C19: a name-not-defined line whose name is dotted, or is no module the
\* import can name, is skipped: the construction ends as it does for the
\* output without these lines, with the same AddImportFix and no abort.
C19_ForeignNameSkipped ==
    [][ParsingStarts =>
          EndsAsParsed(_parse_mypy_result(
              SelectSeq(mypy_result, LAMBDA line : ~IsForeignName(line))))
       ]_vars

\* C19, as the code has it: such a line makes the construction raise; when
\* the lines themselves parse, it is the AssertionError of
\* _add_fix_for_missing_imports, and no fix is created.
C19_ForeignNameAborts ==
    [][ParsingStarts /\ HasLine(IsForeignName) =>
          /\ pc' = "raised"
          /\ fixes' = <<>>
          /\ ~_parse_mypy_result(mypy_result).raised => exc' = "AssertionError"
       ]_vars

\* The lines parsed, one names QtCore.Qt or QtWidgets, and the construction
\* raised the AssertionError before any node was visited.
C19_Witness ==
    /\ pc = "raised" /\ pos = 0
    /\ exc = "AssertionError"
    /\ HasLine(IsForeignName)
    /\ ~_parse_mypy_result(mypy_result).raised

\* ---- custom type definitions in the rewritten module
\* The places of the rewritten module where the type definition stands:
\* node and index among the statements that follow the node.
Insertions(type_def) ==
    {pi \in UNION {{<<p, i>> : i \in 2..Len(tree[p])} : p \in 1..Len(module)} :
        tree[pi[1]][pi[2]] = Statement(type_def[1])}

IsMarker(p) ==
    /\ module[p].node = "Assign"
    /\ module[p].target = Name("PYQT_SLOT")

\* C20: in a traversal each custom type definition of the module's rules is
\* inserted at most once, and only directly after an assignment to
\* PYQT_SLOT, whatever the number of rules that carry it and of assignments
\* to PYQT_SLOT in the module.
C20_TypeDefsOnce ==
    \A type_def \in _type_defs :
        /\ Cardinality(Insertions(type_def)) <= 1
        /\ \A pi \in Insertions(type_def) : IsMarker(pi[1])

\* ---- removal of overloads that are never matched
Pending(fix) == \E i \in 1..Len(_generated_fixes) : _generated_fixes[i] = fix

\* C24: after the traversal of the AnnotationFixer the function of every
\* RemoveFix of the MypyVisitor, be its node the function or one of the
\* decorators of the function, is no longer in the module, and the RemoveFix
\* is no longer pending.
C24_RemoveFixRemoves ==
    pc = "done" =>
        \A i \in 1..Len(fixes) :
            fixes[i].type = "RemoveFix" =>
                /\ tree[fixes[i].node.pos] = <<>>
                /\ ~Pending(fixes[i])

\* ---- the error type of a line
\* The lines of the output that get an error type, and the type they get.
Categorised ==
    {i \in 1..Len(mypy_result) :
        /\ IsErrorLine(mypy_result[i])
        /\ ~IsUnmatched(mypy_result[i])
        /\ ~name_not_defined(Message(mypy_result[i]))}

Category(line) ==
    IF Message(line) = StaticMismatchMsg THEN "STATIC_MISMATCH"
    ELSE IF is_override(Message(line)) THEN "OVERRIDE"
    ELSE "SIGNATURE_MISMATCH"

\* C25: two diagnostics of different categories for one line make the
\* construction raise (the AssertionError of _add_error_type when every
\* line has a line number); when it does not raise, every line that has a
\* diagnostic has one entry, the category of each of its diagnostics.
C25_RecordOnceOrAbort ==
    [][ParsingStarts =>
          /\ (\E i, j \in Categorised :
                 /\ LineNbr(mypy_result[i]) = LineNbr(mypy_result[j])
                 /\ Category(mypy_result[i]) # Category(mypy_result[j]))
             => /\ pc' = "raised"
                /\ _errors' = <<>>
                /\ ~HasLine(IsMalformed) => exc' = "AssertionError"
          /\ pc' # "raised" =>
                /\ DOMAIN _errors' = {LineNbr(mypy_result[i]) : i \in Categorised}
                /\ \A i \in Categorised :
                       _errors'[LineNbr(mypy_result[i])] = Category(mypy_result[i])
       ]_vars

\* Two diagnostics of one category for one line left one entry.
C25_Witness ==
    /\ pc = "mypy"
    /\ \E i, j \in Categorised :
           /\ i # j
           /\ LineNbr(mypy_result[i]) = LineNbr(mypy_result[j])
           /\ mypy_result[i] # mypy_result[j]
    /\ Cardinality(DOMAIN _errors) = 1

\* ---- the order of the entries of a rule
\* The orders of the entries of a rule in which the star entries keep their
\* places.
Orders(fix_params) ==
    {q \in [1..Len(fix_params) -> 1..Len(fix_params)] :
        /\ \A i, j \in 1..Len(fix_params) : i # j => q[i] # q[j]
        /\ \A i \in 1..Len(fix_params) : IsStar(fix_params[i]) => q[i] = i}

Reordered(fix, q) == [fix EXCEPT !.params = [i \in 1..Len(fix.params) |-> fix.params[q[i]]]]

SameMatch(function, fix, other) ==
    /\ _get_fix(<<Entry(1, fix)>>, class_name, function)
         = _get_fix(<<Entry(1, other)>>, class_name, function)
    /\ _get_fix(<<Entry(1, fix)>>, class_name, function) = Returned(1)
         => apply_fix(updated_node, fix) = apply_fix(updated_node, other)

AnnotationsInserted(t) ==
    {i \in 1..Len(log) : log[i].what = "annotations" /\ log[i].tid = t}

\* The last method of the class opened at c.
IsLastMethod(p, c) ==
    /\ p \in Functions
    /\ ClassAt(p) = c
    /\ \A o \in Functions : ClassAt(o) = c => o <= p

HasMethod(cls) == \E p \in Functions : InClass(p) /\ ClassOf(p) = cls

\* C29: when the rewriting has ended, every AddAnnotationFix of the module
\* whose class has a method was inserted exactly once, directly after the
\* last method of a class of that name, and is no longer in the pool.
C29_AnnotationsAdded ==
    pc = "done" =>
        \A t \in ModuleRules :
            (/\ ANNOTATION_FIXES[t].fix.type = "AddAnnotationFix"
             /\ HasMethod(ANNOTATION_FIXES[t].fix.class_name)) =>
                /\ Cardinality(AnnotationsInserted(t)) = 1
                /\ \A i \in AnnotationsInserted(t) :
                       IsLastMethod(log[i].pos, ClassAt(log[i].pos))
                /\ \A i \in 1..Len(_fixes) : _fixes[i].tid # t

\* ---- the rules whose type definition is inserted
\* The type definitions of the table that stand in the tree.
InsertedDefs ==
    {type_def \in {ANNOTATION_FIXES[i].fix.custom_type :
                      i \in {k \in 1..Len(ANNOTATION_FIXES) :
                                ANNOTATION_FIXES[k].fix.type = "AnnotationFix"}} \ {None} :
        Insertions(type_def) # {}}

Carriers(type_def) ==
    {t \in ModuleRules : /\ ANNOTATION_FIXES[t].fix.type = "AnnotationFix"
                         /\ ANNOTATION_FIXES[t].fix.custom_type = type_def}

WasMatched(t) == \E i \in 1..Len(log) : log[i].what = "rule" /\ log[i].tid = t

HasMarker == \E p \in 1..Len(module) : IsMarker(p)

\* C26 as stated: when the rewriting has ended, every type definition that
\* was inserted is carried by a rule that matched a function of the module.
C26_InsertedOnlyIfMatched ==
    pc = "done" => \A type_def \in InsertedDefs : \E t \in Carriers(type_def) : WasMatched(t)

\* C26, amended: when the rewriting has ended, the type definitions that
\* were inserted are those carried by the AnnotationFix rules of this module
\* if the module assigns to PYQT_SLOT, and none otherwise, whether or not
\* any of these rules matched a function.
C26_InsertedIffModuleRule ==
    pc = "done" =>
        \A i \in 1..Len(ANNOTATION_FIXES) :
            (/\ ANNOTATION_FIXES[i].fix.type = "AnnotationFix"
             /\ ANNOTATION_FIXES[i].fix.custom_type # None) =>
                (Insertions(ANNOTATION_FIXES[i].fix.custom_type) # {}
                    <=> (HasMarker /\ Carriers(ANNOTATION_FIXES[i].fix.custom_type) # {}))

\* A type definition stands in the module and none of the rules that carry
\* it matched.
C26_Witness ==
    /\ pc = "done"
    /\ \E type_def \in InsertedDefs : \A t \in Carriers(type_def) : ~WasMatched(t)

\* ---- a module that is already fixed
\* mypy reports nothing and no rule of the module matches a function.
AlreadyFixed ==
    /\ startswith_Success(mypy_result)
    /\ \A p \in Functions :
           InClass(p) =>
               _get_fix(SelectSeq(ANNOTATION_FIXES, LAMBDA e : e.fix.module_name = mod_name),
                        ClassOf(p), module[p]) = Returned(0)

\* C21: when the rewriting of a module that is already fixed has ended, every
\* node of the tree is the node of the module, with nothing added or removed.
C21_FixedModuleUnchanged ==
    (pc = "done" /\ AlreadyFixed) => \A p \in 1..Len(module) : Unchanged(p)

\* ---- the class stack and the function stack
\* C28: in the traversals of the AnnotationFixer and of the CustomFixer the
\* class stack holds the classes that are open at the node, innermost last;
\* the function stack holds the function that is being left and nothing
\* else, and is empty between two nodes; both stacks are empty when the
\* module is left.
C28_StacksBalanced ==
    /\ pc = "visit" =>
           /\ _last_class = open_classes(module, pos - 1)
           /\ _last_function = <<>>
    /\ pc = "leave_TrailingWhitespace" => _last_class = open_classes(module, pos)
    /\ pc \in {"leave_Decorator", "leave_FunctionDef"} =>
           /\ _last_class = open_classes(module, pos)
           /\ _last_function = <<pos>>
    /\ pc \in {"done", "custom", "written"} => (_last_class = <<>> /\ _last_function = <<>>)
    /\ pc = "custom" => cf_last_class = open_classes(module, pos - 1)
    /\ pc = "written" => cf_last_class = <<>>

\* The CustomFixer is inside a class nested in a class, after an
\* AnnotationFixer that rewrote or removed a function.
C28_Witness ==
    /\ pc = "custom"
    /\ Len(cf_last_class) = 2
    /\ \E i \in 1..Len(log) : log[i].what # "nothing"

\* ---- the functions the custom fixes replace
\* The function at p was replaced by the code of the custom fix.
CustomApplied(p, fix) ==
    /\ Len(tree[p]) >= Len(create_fix(fix))
    /\ SubSeq(tree[p], 1, Len(create_fix(fix))) = create_fix(fix)

\* The custom fix names the function at p: its method is the name of the
\* function and its class the class the function is directly in, or no
\* class for a function of the module.
Names(fix, p) ==
    /\ fix.qt_method = module[p].name
    /\ fix.qt_class = IF InClass(p) THEN ClassOf(p) ELSE "None"

\* C23: when the file is written, every function that a custom fix replaced
\* is in the module the fix names as its qt_module.
C23_OnlyInItsModule ==
    pc = "written" =>
        \A p \in Functions : \A i \in 1..Len(CustomFixes) :
            CustomApplied(p, CustomFixes[i]) => CustomFixes[i].qt_module = mod_name

\* C30: when the file is written, the functions a custom fix replaced are
\* exactly those the fix names: functions directly in the class qt_class, or
\* functions of the module when qt_class is None; no other function is
\* replaced.
C30_DirectClassOnly ==
    pc = "written" =>
        \A p \in Functions : \A i \in 1..Len(CustomFixes) :
            CustomApplied(p, CustomFixes[i]) <=> Names(CustomFixes[i], p)

\* ---- the pool of a module in a run over several files
\* The pool is the rules of the table for the module, each once, in the
\* order of the table.
FreshPool ==
    /\ \A i \in 1..Len(_fixes) :
           /\ _fixes[i].tid \in ModuleRules
           /\ _fixes[i] = ANNOTATION_FIXES[_fixes[i].tid]
    /\ \A i, j \in 1..Len(_fixes) : i < j => _fixes[i].tid < _fixes[j].tid
    /\ \A t \in ModuleRules : \E i \in 1..Len(_fixes) : _fixes[i].tid = t

\* C22: no step changes the rule table, and every AnnotationFixer, in
\* whatever place of the run it is constructed and whatever the fixers of
\* the files before it consumed, starts with the rules of the table for its
\* module, in the order of the table.
C22_TableAndPools ==
    [][/\ ANNOTATION_FIXES' = ANNOTATION_FIXES
       /\ (pc = "mypy" /\ pc' = "visit") => FreshPool']_vars

\* The tree of the file the run wrote as its k-th differs from the file.
Rewritten(k) ==
    /\ Len(written[k]) = Len(module)
    /\ \E p \in 1..Len(module) : written[k][p] # <<module[p]>>

\* The third AnnotationFixer of a run has just been constructed with rules
\* in its pool, after two files of different modules were both rewritten:
\* the module of the third is the module of one of them.
C22_Witness ==
    /\ Len(written) = 2
    /\ pc = "visit"
    /\ log = <<>>
    /\ pos = 1
    /\ _fixes # <<>>
    /\ written[1] # written[2]
    /\ Rewritten(1)
    /\ Rewritten(2)
====
